---- MODULE Spec2Model ----
(***************************************************************************)
(* Titan Event Bus: the client (publish / subscribe / replay) and the      *)
(* event processor (group read, priority batch, rate limiting, handler     *)
(* dispatch, dead-lettering) over a Redis-Streams substrate.               *)
(*                                                                         *)
(* One configured topic ("t.v1") and the dead-letter stream are modelled.  *)
(* The substrate is Redis: XADD appends (and may fail), XREADGROUP with    *)
(* id ">" hands out only entries never delivered to the group and puts     *)
(* them on the pending list, XACK removes an entry from the pending list.  *)
(* XACK and XREADGROUP are taken to succeed; substrate outage is modelled  *)
(* on appends only.  One connected session is modelled: disconnect and     *)
(* processor stop (cancellation of the consumer task) are left out.        *)
(*                                                                         *)
(* Plugin manager: the circuit breaker of one plugin with its persisted    *)
(* hash, execute_plugin of the enhanced manager, dispatch_event with the   *)
(* bounded task queue and a pool worker, and the container runtime with    *)
(* the sandbox executor and the watchdog loop.  Each part has its own      *)
(* specification, over its own variables; the others stay as constructed.  *)
(*                                                                         *)
(* Sandbox executor: the invocations of one plugin, with their container   *)
(* names and the wall-clock deadline.  Goal scheduler: the loader, the     *)
(* Redis storage (instance hashes and the sorted set goal_queue), the      *)
(* scheduler loop, one task per running instance, and the API requests     *)
(* run-now, pause, resume and reload.                                      *)
(***************************************************************************)
EXTENDS Integers, Sequences, FiniteSets, TLC

\* ------------------------------------------------------------------ bounds
MaxPublish == 2        \* events appended to the topic stream
MaxHandlers == 2       \* handlers registered on the topic
MaxRetryLimit == 1     \* StreamConfig.retry_limit is drawn from 0..MaxRetryLimit
MaxElapsed == 1        \* clock ticks that may pass between two acquire() calls
TopicRate == 1         \* StreamConfig.rate_limit, tokens per tick (burst = rate)
GlobalRate == 1        \* EventBusConfig.max_global_rate, tokens per tick

\* ------------------------------------------------------- program constants
MaxPayloadBytes == 32 * 1024
BatchSize == 100
DlqWrapBytes == 108

\* Topic names are character sequences so that the suffix test is computed.
TopicT == <<"t", ".", "v", "1">>
BadTopic == <<"t">>
DeadLetterStream == <<"e", "r", "r", "o", "r", "s", ".", "d", "l", "q">>

Digits19 == {"1", "2", "3", "4", "5", "6", "7", "8", "9"}

Priorities == {"high", "medium", "low"}

Ids == 1..MaxPublish

\* ------------------------------------------------------------------- state
VARIABLES
  connected,      \* EventBusClient._connected
  running,        \* EventProcessor.running
  handlers,       \* number of handlers registered on the topic, in order 1..handlers
  retryLimit,     \* StreamConfig.retry_limit of the topic
  streams,        \* substrate: stream name -> sequence of event records
  lastDelivered,  \* substrate: consumer group cursor on the topic stream
  pending,        \* substrate: pending-entries list of the group (msg ids)
  gTokens,        \* global_limiter.tokens
  tTokens,        \* topic_limiters[topic].tokens
  pc,             \* position of the _consume_stream task
  batch,          \* sorted_events of the batch being processed (msg ids)
  idx,            \* index into batch of the event being processed
  hidx,           \* index of the next handler to invoke for that event
  handled,        \* msg ids of the current batch given to a handler, in order
  returned,       \* msg id -> number of handler calls that returned
  raised,         \* msg id -> number of handler calls that raised
  throttled,      \* msg id -> a limiter denied it
  acks,           \* msg id -> number of XACK calls made for it
  critical,       \* msg ids for which a critical record was logged
  escaped,        \* msg id -> error raised out of _process_single_event
  lastPublish     \* outcome of the latest publish call

\* Replay (EventBusClient.replay) over a stream whose entries carry their ids.
VARIABLES
  topicLog,       \* substrate: entries of the replayed stream, [id, ts, ev]
  wallClock,      \* wall clock, in ticks of 1/TicksPerMs millisecond
  lastReplay      \* arguments and output of the latest replay call

\* Plugin manager: circuit breaker, dispatch queue, workers.
VARIABLES
  health,           \* CircuitBreaker.health_data[PluginName]
  redisHealth,      \* substrate: hash plugin:health:<name>, or NoKey
  now,              \* datetime.utcnow(), in ticks
  event_bus_client, \* EnhancedPluginManager.event_bus_client is set
  systemEvents,     \* payloads published on topic system.v1
  failRun,          \* failures recorded since ACTIVE with no failure, or Untracked
  inflight,         \* execute_plugin calls between the breaker check and the record
  lastExec,         \* outcome of the latest plugin execution attempt
  triggers,         \* PluginConfig.triggers of the plugin
  task_queue,       \* PluginManager.task_queue
  putting,          \* task a dispatch_event call is waiting to put, or NoTask
  lastDispatch      \* event and return value of the latest dispatch_event

\* Container runtime and watchdog.
VARIABLES
  containers,     \* runtime: container id -> [present, labels, state, age, by]
  sinceCycle,     \* ticks since the watchdog loop last ran
  cycled          \* the watchdog loop has run at least once

\* Sandbox executor: the invocations execute() has launched.
VARIABLES
  timeout_sec,    \* PluginConfig.timeout_sec of the loaded plugin
  invocations     \* sequence of [event_id, name, elapsed, status, result]

\* Goal scheduler: the loader, the Redis storage and the running tasks.
VARIABLES
  clock,          \* time.time() and datetime.utcnow(), in seconds
  started,        \* start() has run
  goals,          \* loader.goals: ids of the goals get_goal finds
  instances,      \* storage: instance id -> the hash stored at goal:<id>
  goal_queue,     \* storage: members of the sorted set goal_queue
  active_goals,   \* _active_goals: instance id -> its task
  arrived,        \* events published on a trigger topic of a goal
  failures,       \* instance id -> attempts that ended in a failed step
  lastCall,       \* the latest pause_goal / resume_goal call
  max_concurrent_goals,  \* SchedulerConfig.max_concurrent_goals
  schedule        \* GoalConfig.schedule of the goal, as its words

\* One run of _execute_steps, with the timeouts of the goal file.
VARIABLES
  step_timeouts,    \* GoalStep.timeout_sec of each step of the goal
  goal_timeout_sec, \* GoalConfig.timeout_sec
  execution         \* the run: [i, pc, elapsed, state, last_error]

\* Storage calls for one instance, one Redis command at a time.
VARIABLES
  stored,         \* the hash goal:<id>: [state, current_step]
  indexed,        \* the id is a member of goal_queue
  calls,          \* caller -> the storage call it is in: [op, pc, instance]
  completed       \* calls that have returned: [steps, state, requests]

replayVars == <<topicLog, wallClock, lastReplay>>
breakerVars == <<health, redisHealth, now, event_bus_client, systemEvents,
                 failRun, lastExec, inflight>>
dispatchVars == <<triggers, task_queue, putting, lastDispatch>>
watchdogVars == <<containers, sinceCycle, cycled>>
sandboxVars == <<timeout_sec, invocations>>
stepVars == <<step_timeouts, goal_timeout_sec, execution>>
raceVars == <<stored, indexed, calls, completed>>
goalVars == <<clock, started, goals, instances, goal_queue, active_goals,
              arrived, failures, lastCall,
             max_concurrent_goals, schedule>>
busVars == <<connected, running, handlers, retryLimit, streams, lastDelivered,
             pending, gTokens, tTokens, pc, batch, idx, hidx, handled,
             returned, raised, throttled, acks, critical, escaped,
             lastPublish>>
otherVars == <<replayVars, breakerVars, dispatchVars, watchdogVars,
               sandboxVars, goalVars,
      stepVars, raceVars>>

vars == <<busVars, otherVars>>

substrateVars == <<streams, lastDelivered, pending>>
consumerVars == <<pc, batch, idx, hidx>>
historyVars == <<handled, returned, raised, throttled, acks, critical,
                 escaped>>

\* ---------------------------------------------------------------- event.py
Min(a, b) == IF a < b THEN a ELSE b

EndsWith(s, suf) ==
  /\ Len(s) >= Len(suf)
  /\ SubSeq(s, Len(s) - Len(suf) + 1, Len(s)) = suf

\* Event.validate_topic
ValidateTopic(v) ==
  /\ Len(v) > 0
  /\ \E d \in Digits19 : EndsWith(v, <<".", "v", d>>)

\* len(json.dumps(payload).encode()) : a user payload carries its serialized
\* size; a dead-letter payload serializes its five wrapper keys (DlqWrapBytes
\* is the length of their JSON text alone) plus the original event, whose
\* own payload is part of it. A lower bound of the real length.
PayloadBytes(p) ==
  IF "original_event" \in DOMAIN p
  THEN DlqWrapBytes + p.original_event.payload.size
  ELSE p.size

\* Event.validate_payload_size
ValidatePayloadSize(p) == PayloadBytes(p) <= MaxPayloadBytes

\* Event(...) / Event.model_validate : every field validator runs
Validates(e) == ValidateTopic(e.topic) /\ ValidatePayloadSize(e.payload)

NewEvent(id, topic, payload, priority) ==
  [event_id |-> id, topic |-> topic, event_type |-> "test",
   payload |-> payload, meta |-> [priority |-> priority, retries |-> 0]]

\* --------------------------------------------------------------- substrate
XAdd(name, rec) == [streams EXCEPT ![name] = Append(@, rec)]

EventOf(id) == streams[TopicT][id]

TypeOK ==
  /\ connected \in BOOLEAN
  /\ running \in BOOLEAN
  /\ handlers \in 0..MaxHandlers
  /\ retryLimit \in 0..MaxRetryLimit
  /\ Len(streams[TopicT]) <= MaxPublish
  /\ lastDelivered \in 0..MaxPublish
  /\ pending \subseteq Ids
  /\ gTokens \in 0..GlobalRate
  /\ tTokens \in 0..TopicRate
  /\ pc \in {"stopped", "idle", "begin", "invoke", "ack", "dlq", "dlqack"}

BusInit ==
  /\ connected = FALSE
  /\ running = FALSE
  /\ handlers = 0
  /\ retryLimit \in 0..MaxRetryLimit
  /\ streams = [n \in {TopicT, DeadLetterStream} |-> <<>>]
  /\ lastDelivered = 0
  /\ pending = {}
  /\ gTokens = GlobalRate
  /\ tTokens = TopicRate
  /\ pc = "stopped"
  /\ batch = <<>>
  /\ idx = 0
  /\ hidx = 0
  /\ handled = <<>>
  /\ returned = [i \in Ids |-> 0]
  /\ raised = [i \in Ids |-> 0]
  /\ throttled = [i \in Ids |-> FALSE]
  /\ acks = [i \in Ids |-> 0]
  /\ critical = {}
  /\ escaped = [i \in Ids |-> "none"]
  /\ lastPublish = [outcome |-> "none", appended |-> 0]

\* --------------------------------------------------------------- client.py
\* EventBusClient.connect: a fresh EventProcessor (no handlers, not running,
\* full global bucket)
Connect ==
  /\ ~connected
  /\ connected' = TRUE
  /\ handlers' = 0
  /\ gTokens' = GlobalRate
  /\ UNCHANGED <<running, retryLimit, otherVars, substrateVars, tTokens, consumerVars,
                 historyVars, lastPublish>>

\* EventBusClient.subscribe -> EventProcessor.register_handler
Subscribe ==
  /\ connected
  /\ handlers < MaxHandlers
  /\ handlers' = handlers + 1
  /\ UNCHANGED <<connected, running, retryLimit, otherVars, substrateVars, gTokens,
                 tTokens, consumerVars, historyVars, lastPublish>>

\* EventBusClient.publish(topic, "test", payload, priority); xaddOk is whether
\* the substrate accepts the append
Publish(topic, size, priority, xaddOk) ==
  LET id == Len(streams[TopicT]) + 1
      event == NewEvent(id, topic, [size |-> size], priority)
  IN
  /\ Len(streams[TopicT]) < MaxPublish
  /\ IF ~connected
     THEN /\ lastPublish' = [outcome |-> "PublishError", appended |-> 0]
          /\ UNCHANGED streams
     ELSE IF ~Validates(event)
     THEN \* Event(...) is built outside the try block: pydantic's
          \* ValidationError leaves publish unwrapped
          /\ lastPublish' = [outcome |-> "ValidationError", appended |-> 0]
          /\ UNCHANGED streams
     ELSE IF ~xaddOk
     THEN /\ lastPublish' = [outcome |-> "PublishError", appended |-> 0]
          /\ UNCHANGED streams
     ELSE /\ streams' = XAdd(topic, event)
          /\ lastPublish' = [outcome |-> "ok", appended |-> 1]
  /\ UNCHANGED <<connected, running, handlers, retryLimit, otherVars, lastDelivered,
                 pending, gTokens, tTokens, consumerVars, historyVars>>

\* EventBusClient.replay(name) without time bounds: range-read the stream and
\* yield the entries that parse, skipping (and logging) those that do not
Replay(name) == SelectSeq(streams[name], Validates)

\* ------------------------------------------------------------ processor.py
PriorityWeights == [high |-> 3, medium |-> 2, low |-> 1]

\* key of the sort in _process_batch: priority_weights.get(priority, 0)
WeightOf(p) == IF p \in DOMAIN PriorityWeights THEN PriorityWeights[p] ELSE 0

Weight(id) == WeightOf(EventOf(id).meta.priority)

\* A sort that puts equal keys in reverse arrival order.
RECURSIVE InsertByWeight_Unstable(_, _, _)
InsertByWeight_Unstable(s, x, key) ==
  IF s = <<>> THEN <<x>>
  ELSE IF key[Head(s)] > key[x]
       THEN <<Head(s)>> \o InsertByWeight_Unstable(Tail(s), x, key)
       ELSE <<x>> \o s

\* sorted(events, key=weight, reverse=True): a stable sort, so an element goes
\* behind every element already placed whose key is not smaller
RECURSIVE InsertByWeight(_, _, _)
InsertByWeight(s, x, key) ==
  IF s = <<>> THEN <<x>>
  ELSE IF key[Head(s)] >= key[x]
       THEN <<Head(s)>> \o InsertByWeight(Tail(s), x, key)
       ELSE <<x>> \o s

RECURSIVE SortByPriority(_, _)
SortByPriority(s, key) ==
  IF s = <<>> THEN <<>>
  ELSE InsertByWeight(SortByPriority(SubSeq(s, 1, Len(s) - 1), key),
                      s[Len(s)], key)

\* RateLimiter.acquire after `elapsed` ticks: the refilled token count
Refill(tokens, rate, elapsed) == Min(rate, tokens + elapsed * rate)

\* EventProcessor.start -> _consume_stream up to its first group read: a fresh
\* topic limiter; the consumer group keeps its cursor if it already exists
StartProcessor ==
  /\ connected
  /\ ~running
  /\ running' = TRUE
  /\ tTokens' = TopicRate
  /\ pc' = "idle"
  /\ UNCHANGED <<connected, handlers, retryLimit, otherVars, substrateVars, gTokens,
                 batch, idx, hidx, historyVars, lastPublish>>

\* _consume_stream: xreadgroup(group, consumer, {topic: ">"}, count=batch_size)
\* followed by the parse and the sort of _process_batch
ReadBatch ==
  LET n == Min(BatchSize, Len(streams[TopicT]) - lastDelivered)
      msgs == [i \in 1..n |-> lastDelivered + i]
      parsed == SelectSeq(msgs, LAMBDA i : Validates(EventOf(i)))
      unparsed == {i \in lastDelivered + 1..lastDelivered + n :
                     ~Validates(EventOf(i))}
      sorted == SortByPriority(parsed,
                  [i \in 1..Len(streams[TopicT]) |-> Weight(i)])
  IN
  /\ running
  /\ pc = "idle"
  /\ n > 0
  /\ lastDelivered' = lastDelivered + n
  \* entries that fail to parse are acknowledged at once
  /\ pending' = pending \cup {sorted[i] : i \in 1..Len(sorted)}
  /\ acks' = [i \in Ids |-> IF i \in unparsed THEN acks[i] + 1 ELSE acks[i]]
  /\ batch' = sorted
  /\ idx' = IF sorted = <<>> THEN 0 ELSE 1
  /\ hidx' = 0
  /\ handled' = <<>>
  /\ pc' = IF sorted = <<>> THEN "idle" ELSE "begin"
  /\ UNCHANGED <<connected, running, handlers, retryLimit, otherVars, streams, gTokens,
                 tTokens, returned, raised, throttled, critical, escaped,
                 lastPublish>>

\* the for loop of _process_batch moves to the next event, or the batch ends
\* and _consume_stream goes back to reading
NextEvent ==
  IF idx < Len(batch)
  THEN /\ idx' = idx + 1
       /\ pc' = "begin"
       /\ hidx' = 0
       /\ UNCHANGED <<batch, handled>>
  ELSE /\ idx' = 0
       /\ pc' = "idle"
       /\ hidx' = 0
       /\ batch' = <<>>
       /\ handled' = <<>>

cur == batch[idx]

XAck(id) ==
  /\ pending' = pending \ {id}
  /\ acks' = [acks EXCEPT ![id] = @ + 1]

\* _process_single_event, lines 223-257: both limiters, then the handler list
ProcBegin(gElapsed, tElapsed) ==
  LET g == Refill(gTokens, GlobalRate, gElapsed)
      t == Refill(tTokens, TopicRate, tElapsed)
  IN
  /\ running
  /\ pc = "begin"
  /\ IF g < 1
     THEN \* global limiter denies: sleep 100 ms and return
          /\ gTokens' = g
          /\ throttled' = [throttled EXCEPT ![cur] = TRUE]
          /\ NextEvent
          /\ UNCHANGED <<tTokens, pending, acks>>
     ELSE IF t < 1
     THEN \* topic limiter denies (the global token is spent): sleep, return
          /\ gTokens' = g - 1
          /\ tTokens' = t
          /\ throttled' = [throttled EXCEPT ![cur] = TRUE]
          /\ NextEvent
          /\ UNCHANGED <<pending, acks>>
     ELSE IF handlers = 0
     THEN \* no handlers registered: acknowledge and return
          /\ gTokens' = g - 1
          /\ tTokens' = t - 1
          /\ XAck(cur)
          /\ NextEvent
          /\ UNCHANGED throttled
     ELSE /\ gTokens' = g - 1
          /\ tTokens' = t - 1
          /\ pc' = "invoke"
          /\ hidx' = 1
          /\ UNCHANGED <<batch, idx, handled, pending, acks, throttled>>
  /\ UNCHANGED <<connected, running, handlers, retryLimit, otherVars, streams,
                 lastDelivered, returned, raised, critical, escaped,
                 lastPublish>>

\* A retry branch that acknowledges the entry whose handler raised.
HandlerFailed_AckOnRetry ==
  IF EventOf(cur).meta.retries >= retryLimit
  THEN /\ pc' = "dlq"
       /\ handled' = IF hidx = 1 THEN Append(handled, cur) ELSE handled
       /\ UNCHANGED <<batch, idx, hidx, escaped>>
  ELSE /\ pc' = "ack"
       /\ handled' = IF hidx = 1 THEN Append(handled, cur) ELSE handled
       /\ UNCHANGED <<batch, idx, hidx, escaped>>

\* the except branch of _process_single_event, lines 276-293, entered with
\* the ConsumerError of a handler: dead-letter at the retry ceiling, else log
\* the retry and return normally
HandlerFailed ==
  IF EventOf(cur).meta.retries >= retryLimit
  THEN /\ pc' = "dlq"
       /\ handled' = IF hidx = 1 THEN Append(handled, cur) ELSE handled
       /\ UNCHANGED <<batch, idx, hidx, escaped>>
  ELSE /\ IF idx < Len(batch)
          THEN /\ idx' = idx + 1
               /\ pc' = "begin"
               /\ hidx' = 0
               /\ handled' = IF hidx = 1 THEN Append(handled, cur) ELSE handled
               /\ UNCHANGED batch
          ELSE /\ idx' = 0
               /\ pc' = "idle"
               /\ hidx' = 0
               /\ batch' = <<>>
               /\ handled' = <<>>
       /\ UNCHANGED escaped

\* lines 260-268: await handler(event); the list is iterated live, so a
\* handler registered meanwhile is reached too. A raise becomes a
\* ConsumerError that ends the loop.
ProcInvoke(raises) ==
  /\ running
  /\ pc = "invoke"
  /\ IF raises
     THEN /\ raised' = [raised EXCEPT ![cur] = @ + 1]
          /\ HandlerFailed
          /\ UNCHANGED returned
     ELSE /\ returned' = [returned EXCEPT ![cur] = @ + 1]
          /\ handled' = IF hidx = 1 THEN Append(handled, cur) ELSE handled
          /\ IF hidx < handlers
             THEN /\ hidx' = hidx + 1
                  /\ UNCHANGED <<pc, batch, idx>>
             ELSE /\ pc' = "ack"
                  /\ UNCHANGED <<batch, idx, hidx>>
          /\ UNCHANGED <<raised, escaped>>
  /\ UNCHANGED <<connected, running, handlers, retryLimit, otherVars, substrateVars,
                 gTokens, tTokens, throttled, acks, critical, lastPublish>>

\* lines 270-274: every handler returned, acknowledge the entry
ProcAck ==
  /\ running
  /\ pc = "ack"
  /\ XAck(cur)
  /\ NextEvent
  /\ UNCHANGED <<connected, running, handlers, retryLimit, otherVars, streams,
                 lastDelivered, gTokens, tTokens, returned, raised,
                 throttled, critical, escaped, lastPublish>>

\* _send_to_dlq: model_copy(update=...) runs no validator
DlqEvent(id, error) ==
  LET event == EventOf(id)
  IN [event_id |-> event.event_id,
      topic |-> DeadLetterStream,
      event_type |-> "dead_letter",
      payload |-> [original_topic |-> TopicT,
                   original_msg_id |-> id,
                   original_event |-> event,
                   error |-> error],
      meta |-> event.meta]

\* A dead-letter step that logs the failed append and carries on to the
\* acknowledgement instead of raising.
ProcSendToDlq_Swallow(xaddOk) ==
  /\ running
  /\ pc = "dlq"
  /\ IF xaddOk
     THEN /\ streams' = XAdd(DeadLetterStream,
                             DlqEvent(cur, "Handler failed"))
          /\ UNCHANGED critical
     ELSE /\ critical' = critical \cup {cur}
          /\ UNCHANGED streams
  /\ pc' = "dlqack"
  /\ UNCHANGED <<batch, idx, hidx, handled, escaped>>
  /\ UNCHANGED <<connected, running, handlers, retryLimit, otherVars, lastDelivered,
                 pending, gTokens, tTokens, returned, raised, throttled,
                 acks, lastPublish>>

\* line 283: _send_to_dlq. A failed append is logged critical and raised as
\* DeadLetterError, which leaves _process_batch; _consume_stream logs it,
\* sleeps one second and reads again.
ProcSendToDlq(xaddOk) ==
  /\ running
  /\ pc = "dlq"
  /\ IF xaddOk
     THEN /\ streams' = XAdd(DeadLetterStream,
                             DlqEvent(cur, "Handler failed"))
          /\ pc' = "dlqack"
          /\ UNCHANGED <<batch, idx, hidx, handled, critical, escaped>>
     ELSE /\ critical' = critical \cup {cur}
          /\ escaped' = [escaped EXCEPT ![cur] = "DeadLetterError"]
          /\ pc' = "idle"
          /\ batch' = <<>>
          /\ idx' = 0
          /\ hidx' = 0
          /\ handled' = <<>>
          /\ UNCHANGED streams
  /\ UNCHANGED <<connected, running, handlers, retryLimit, otherVars, lastDelivered,
                 pending, gTokens, tTokens, returned, raised, throttled,
                 acks, lastPublish>>

\* line 285: acknowledge the original after the dead-letter append
ProcDlqAck ==
  /\ running
  /\ pc = "dlqack"
  /\ XAck(cur)
  /\ NextEvent
  /\ UNCHANGED <<connected, running, handlers, retryLimit, otherVars, streams,
                 lastDelivered, gTokens, tTokens, returned, raised,
                 throttled, critical, escaped, lastPublish>>

PayloadSizes == {MaxPayloadBytes, MaxPayloadBytes + 1}

Consume ==
  \/ ReadBatch
  \/ \E ge, te \in 0..MaxElapsed : ProcBegin(ge, te)
  \/ \E raises \in BOOLEAN : ProcInvoke(raises)
  \/ ProcAck
  \/ \E ok \in BOOLEAN : ProcSendToDlq(ok)
  \/ ProcDlqAck

Next ==
  \/ Connect
  \/ Subscribe
  \/ StartProcessor
  \/ \E topic \in {TopicT, BadTopic}, size \in PayloadSizes,
        priority \in Priorities, ok \in BOOLEAN :
       Publish(topic, size, priority, ok)
  \/ Consume


\* ------------------------------------------------------ client.py : replay
\* The replayed stream keeps the entry ids Redis assigns: <ms>-<seq>, seq
\* counting the entries appended within one millisecond.  An event's
\* timestamp is taken on the same clock at the instant of the append, with
\* sub-millisecond resolution (TicksPerMs ticks to the millisecond).
TicksPerMs == 2        \* clock ticks per millisecond
MaxTick == 3           \* the wall clock runs over 0..MaxTick
MaxEntries == 3        \* entries appended to the replayed stream
ReplayBatch == 100

\* from_timestamp / to_timestamp left at their default None
NoTime == -1

Times == 0..MaxTick

\* int(ts.timestamp() * 1000)
Ms(t) == t \div TicksPerMs

\* XADD with id "*"
NextId(lg, ms) ==
  IF lg # <<>> /\ lg[Len(lg)].id[1] = ms
  THEN <<ms, lg[Len(lg)].id[2] + 1>>
  ELSE <<ms, 0>>

IdLess(a, b) == a[1] < b[1] \/ (a[1] = b[1] /\ a[2] < b[2])

IdLeq(a, b) == a = b \/ IdLess(a, b)

\* start_id / end_id : "-", "+", "<ms>-0" or the exclusive "(<id>"
MinId == [kind |-> "-", open |-> FALSE, id |-> <<0, 0>>]
MaxId == [kind |-> "+", open |-> FALSE, id |-> <<0, 0>>]
ClosedId(ms) == [kind |-> "id", open |-> FALSE, id |-> <<ms, 0>>]
OpenId(id) == [kind |-> "id", open |-> TRUE, id |-> id]

InRange(e, min, max) ==
  /\ \/ min.kind = "-"
     \/ IF min.open THEN IdLess(min.id, e.id) ELSE IdLeq(min.id, e.id)
  /\ \/ max.kind = "+"
     \/ IdLeq(e.id, max.id)

\* XRANGE key min max COUNT count
XRange(lg, min, max, count) ==
  LET sel == SelectSeq(lg, LAMBDA e : InRange(e, min, max))
  IN SubSeq(sel, 1, Min(count, Len(sel)))

\* the while loop of replay: every entry read parses and is yielded
RECURSIVE ReplayLoop(_, _, _, _, _, _)
ReplayLoop(lg, start_id, end_id, limit, count, out) ==
  IF count >= limit
  THEN out
  ELSE LET batch_size == Min(ReplayBatch, limit - count)
           events == XRange(lg, start_id, end_id, batch_size)
       IN IF events = <<>>
          THEN out
          ELSE ReplayLoop(lg, OpenId(events[Len(events)].id), end_id, limit,
                          count + Len(events), out \o events)

ReplayRange(lg, from_timestamp, to_timestamp, limit) ==
  LET start_id == IF from_timestamp # NoTime
                  THEN ClosedId(Ms(from_timestamp)) ELSE MinId
      end_id == IF to_timestamp # NoTime
                THEN ClosedId(Ms(to_timestamp)) ELSE MaxId
  IN ReplayLoop(lg, start_id, end_id, limit, 0, <<>>)

ReplayInit ==
  /\ topicLog = <<>>
  /\ wallClock = 0
  /\ lastReplay = [from |-> NoTime, to |-> NoTime, limit |-> 0, out |-> <<>>]

\* publish, as the replayed stream sees it
ReplayPublish ==
  /\ connected
  /\ Len(topicLog) < MaxEntries
  /\ topicLog' = Append(topicLog, [id |-> NextId(topicLog, Ms(wallClock)),
                                   ts |-> wallClock,
                                   ev |-> Len(topicLog) + 1])
  /\ UNCHANGED <<busVars, wallClock, lastReplay, breakerVars, dispatchVars,
                 watchdogVars, sandboxVars, goalVars,
      stepVars, raceVars>>

ClockTick ==
  /\ wallClock < MaxTick
  /\ wallClock' = wallClock + 1
  /\ UNCHANGED <<busVars, topicLog, lastReplay, breakerVars, dispatchVars,
                 watchdogVars, sandboxVars, goalVars,
      stepVars, raceVars>>

\* replay(topic, from_timestamp, to_timestamp, limit), run to exhaustion
\* with no append in between
DoReplay(from_timestamp, to_timestamp, limit) ==
  /\ connected
  /\ lastReplay' = [from |-> from_timestamp, to |-> to_timestamp,
                    limit |-> limit,
                    out |-> ReplayRange(topicLog, from_timestamp,
                                        to_timestamp, limit)]
  /\ UNCHANGED <<busVars, topicLog, wallClock, breakerVars, dispatchVars,
                 watchdogVars, sandboxVars, goalVars,
      stepVars, raceVars>>

ReplayNext ==
  \/ Connect
  \/ ReplayPublish
  \/ ClockTick
  \/ \E t0, t1 \in Times \cup {NoTime}, limit \in 1..MaxEntries :
       DoReplay(t0, t1, limit)

\* ------------------------------------------ plugin_manager : circuit breaker
\* One tracked plugin.  Time is counted in ticks; reset_timeout and the
\* minutes of a pause are whole ticks.  The seven-day expiry of the persisted
\* hash is left out: a key once written stays.
FailureThreshold == 5
MaxFailureHistory == 10
ResetTimeout == 1      \* CircuitBreaker.reset_timeout, in ticks
MaxNow == 2            \* datetime.utcnow() runs over 0..MaxNow
MaxExecutions == 6     \* executions recorded for the plugin
PauseMinutes == {0, 1}

PluginName == "p"
Errors == {"boom"}

\* PluginState
ACTIVE == "active"
DISABLED == "disabled"
PAUSED == "paused"

\* PluginHealth(name=...)
PluginHealth ==
  [state |-> ACTIVE, consecutive_failures |-> 0, total_failures |-> 0,
   total_executions |-> 0, last_failure |-> NoTime, last_success |-> NoTime,
   disabled_until |-> NoTime, failure_reasons |-> <<>>]

\* failure_reasons[-max_failure_history:]
LastN(s, n) == IF Len(s) > n THEN SubSeq(s, Len(s) - n + 1, Len(s)) ELSE s

\* record_success that also re-enables a DISABLED plugin past its timer
SuccessUpdate_ReenablesDisabled(h, t) ==
  LET h1 == [h EXCEPT !.consecutive_failures = 0,
                      !.total_executions = @ + 1,
                      !.last_success = t]
  IN IF h1.state \in {PAUSED, DISABLED} /\ h1.disabled_until # NoTime
        /\ t > h1.disabled_until
     THEN [h1 EXCEPT !.state = ACTIVE, !.disabled_until = NoTime]
     ELSE h1

\* record_success, on the in-memory PluginHealth
SuccessUpdate(h, t) ==
  LET h1 == [h EXCEPT !.consecutive_failures = 0,
                      !.total_executions = @ + 1,
                      !.last_success = t]
  IN IF h1.state = PAUSED /\ h1.disabled_until # NoTime
        /\ t > h1.disabled_until
     THEN [h1 EXCEPT !.state = ACTIVE, !.disabled_until = NoTime]
     ELSE h1

\* record_failure with the threshold test made strict
FailureUpdate_StrictThreshold(h, t, error) ==
  LET h1 == [h EXCEPT !.consecutive_failures = @ + 1,
                      !.total_failures = @ + 1,
                      !.total_executions = @ + 1,
                      !.last_failure = t,
                      !.failure_reasons =
                         LastN(Append(@, [timestamp |-> t, error |-> error]),
                               MaxFailureHistory)]
  IN IF h1.consecutive_failures > FailureThreshold
     THEN [h1 EXCEPT !.state = DISABLED, !.disabled_until = t + ResetTimeout]
     ELSE h1

\* record_failure, on the in-memory PluginHealth
FailureUpdate(h, t, error) ==
  LET h1 == [h EXCEPT !.consecutive_failures = @ + 1,
                      !.total_failures = @ + 1,
                      !.total_executions = @ + 1,
                      !.last_failure = t,
                      !.failure_reasons =
                         LastN(Append(@, [timestamp |-> t, error |-> error]),
                               MaxFailureHistory)]
  IN IF h1.consecutive_failures >= FailureThreshold
     THEN [h1 EXCEPT !.state = DISABLED, !.disabled_until = t + ResetTimeout]
     ELSE h1

\* should_disable, the value record_failure returns
ShouldDisable(h1) == h1.consecutive_failures >= FailureThreshold

IsPluginHealthy(h, t) ==
  IF h.state = DISABLED
  THEN FALSE
  ELSE IF h.state = PAUSED /\ h.disabled_until # NoTime /\ t < h.disabled_until
       THEN FALSE
       ELSE TRUE

\* _save_state: every field is written as text; the text of a number or of
\* a date reads back to the same value, None is written as "".
SaveState(h) == <<h>>

\* _load_state: the fields it parses, over a fresh PluginHealth
LoadState(data) ==
  [PluginHealth EXCEPT !.state = data.state,
                       !.consecutive_failures = data.consecutive_failures,
                       !.total_failures = data.total_failures,
                       !.total_executions = data.total_executions,
                       !.last_failure = data.last_failure,
                       !.last_success = data.last_success,
                       !.disabled_until = data.disabled_until]

\* failRun: <<k>> after k failures recorded since the plugin was ACTIVE with
\* no consecutive failure, nothing but failures in between; <<>> otherwise.
RunAfterFailure(run) == IF run = <<>> THEN <<>> ELSE <<run[1] + 1>>

RunAfter(h1) ==
  IF h1.state = ACTIVE /\ h1.consecutive_failures = 0 THEN <<0>> ELSE <<>>

BreakerInit ==
  /\ health = PluginHealth
  /\ redisHealth = <<>>
  /\ now = 0
  /\ systemEvents = <<>>
  /\ failRun = <<0>>
  /\ inflight = 0
  /\ lastExec = [via |-> "none", state |-> ACTIVE, started |-> FALSE,
                 error |-> ""]

breakerFrame == <<busVars, replayVars, dispatchVars, watchdogVars,
                  sandboxVars, goalVars, stepVars, raceVars, inflight>>

RecordSuccess ==
  /\ health.total_executions < MaxExecutions
  /\ health' = SuccessUpdate(health, now)
  /\ redisHealth' = SaveState(health')
  /\ failRun' = RunAfter(health')
  /\ UNCHANGED <<now, event_bus_client, systemEvents, lastExec, breakerFrame>>

\* _publish_alert writes a log record only
RecordFailure(error) ==
  /\ health.total_executions < MaxExecutions
  /\ health' = FailureUpdate(health, now, error)
  /\ redisHealth' = SaveState(health')
  /\ failRun' = RunAfterFailure(failRun)
  /\ UNCHANGED <<now, event_bus_client, systemEvents, lastExec, breakerFrame>>

ResetPlugin ==
  /\ health' = [health EXCEPT !.state = ACTIVE,
                              !.consecutive_failures = 0,
                              !.disabled_until = NoTime]
  /\ redisHealth' = SaveState(health')
  /\ failRun' = RunAfter(health')
  /\ UNCHANGED <<now, event_bus_client, systemEvents, lastExec, breakerFrame>>

PausePlugin(minutes) ==
  /\ health' = [health EXCEPT !.state = PAUSED,
                              !.disabled_until = now + minutes]
  /\ redisHealth' = SaveState(health')
  /\ failRun' = <<>>
  /\ UNCHANGED <<now, event_bus_client, systemEvents, lastExec, breakerFrame>>

\* process restart: a new CircuitBreaker runs initialize
Restart ==
  /\ health' = IF redisHealth = <<>>
               THEN PluginHealth
               ELSE LoadState(redisHealth[1])
  /\ UNCHANGED <<redisHealth, now, event_bus_client, systemEvents, failRun,
                 lastExec, breakerFrame>>

TimePasses ==
  /\ now < MaxNow
  /\ now' = now + 1
  /\ UNCHANGED <<health, redisHealth, event_bus_client, systemEvents, failRun,
                 lastExec, breakerFrame>>

\* The same four calls when redis.hset of _save_state raises: the
\* exception leaves _save_state and the call, nothing is written.
RecordSuccessSaveFails ==
  /\ health.total_executions < MaxExecutions
  /\ health' = SuccessUpdate(health, now)
  /\ failRun' = RunAfter(health')
  /\ UNCHANGED <<redisHealth, now, event_bus_client, systemEvents, lastExec,
                 breakerFrame>>

RecordFailureSaveFails(error) ==
  /\ health.total_executions < MaxExecutions
  /\ health' = FailureUpdate(health, now, error)
  /\ failRun' = RunAfterFailure(failRun)
  /\ UNCHANGED <<redisHealth, now, event_bus_client, systemEvents, lastExec,
                 breakerFrame>>

ResetPluginSaveFails ==
  /\ health' = [health EXCEPT !.state = ACTIVE,
                              !.consecutive_failures = 0,
                              !.disabled_until = NoTime]
  /\ failRun' = RunAfter(health')
  /\ UNCHANGED <<redisHealth, now, event_bus_client, systemEvents, lastExec,
                 breakerFrame>>

PausePluginSaveFails(minutes) ==
  /\ health' = [health EXCEPT !.state = PAUSED,
                              !.disabled_until = now + minutes]
  /\ failRun' = <<>>
  /\ UNCHANGED <<redisHealth, now, event_bus_client, systemEvents, lastExec,
                 breakerFrame>>

SaveFails ==
  \/ RecordSuccessSaveFails
  \/ \E error \in Errors : RecordFailureSaveFails(error)
  \/ ResetPluginSaveFails
  \/ \E minutes \in PauseMinutes : PausePluginSaveFails(minutes)

BreakerNext ==
  \/ RecordSuccess
  \/ \E error \in Errors : RecordFailure(error)
  \/ ResetPlugin
  \/ \E minutes \in PauseMinutes : PausePlugin(minutes)
  \/ Restart
  \/ TimePasses

\* --------------------------------------------- plugin_manager : dispatching
\* One loaded plugin.  A dict is the set of its <<key, value>> pairs; a
\* trigger without event_type carries "", a trigger without filter {}.
TaskQueueSize == 2     \* PluginManagerConfig.task_queue_size

Topics == {"a.v1", "b.v1"}
EventTypes == {"x", "y"}
Payloads == {{<<"k", 1>>}, {<<"k", 2>>}}
Events == [topic : Topics, event_type : EventTypes, payload : Payloads]

\* EventTrigger
TriggerSet ==
  [topic : Topics, event_type : {"", "x"}, filter : {{}, {<<"k", 1>>}}]

Configs ==
  {<<a>> : a \in TriggerSet} \cup {<<a, b>> : a, b \in TriggerSet}

DefaultTriggers == <<[topic |-> "a.v1", event_type |-> "", filter |-> {}]>>

MakeTriggerKey(trigger) ==
  IF trigger.event_type # ""
  THEN <<trigger.topic, ":", trigger.event_type>>
  ELSE <<trigger.topic>>

\* _update_trigger_map: the keys under which the plugin is registered
TriggerKeys(config) == {MakeTriggerKey(config[i]) : i \in 1..Len(config)}

\* matching_plugins of dispatch_event
MatchingPlugins(config, event) ==
  IF \E key \in {<<event.topic, ":", event.event_type>>, <<event.topic>>} :
       key \in TriggerKeys(config)
  THEN {PluginName}
  ELSE {}

\* the loop of CheckEventFilters, from trigger i on
RECURSIVE FiltersFrom(_, _, _)
FiltersFrom(config, event, i) ==
  IF i > Len(config)
  THEN TRUE
  ELSE IF config[i].filter = {}
       THEN TRUE
       ELSE IF \E pair \in config[i].filter : pair \notin event.payload
            THEN FALSE
            ELSE FiltersFrom(config, event, i + 1)

CheckEventFilters(config, event) == FiltersFrom(config, event, 1)

PluginTask(event) == [plugin_name |-> PluginName, event |-> event]

DispatchInit ==
  /\ task_queue = <<>>
  /\ putting = <<>>
  /\ lastDispatch = <<>>

dispatchFrame == <<busVars, replayVars, breakerVars, watchdogVars,
                   sandboxVars, goalVars,
      stepVars, raceVars>>

\* dispatch_event, up to its return or to a put that has to wait
DispatchEvent(event) ==
  /\ putting = <<>>
  /\ IF /\ MatchingPlugins(triggers, event) # {}
        /\ CheckEventFilters(triggers, event)
     THEN IF Len(task_queue) < TaskQueueSize
          THEN /\ task_queue' = Append(task_queue, PluginTask(event))
               /\ lastDispatch' = <<[event |-> event,
                                     dispatched |-> {PluginName}]>>
               /\ UNCHANGED putting
          ELSE /\ putting' = <<PluginTask(event)>>
               /\ UNCHANGED <<task_queue, lastDispatch>>
     ELSE /\ lastDispatch' = <<[event |-> event, dispatched |-> {}]>>
          /\ UNCHANGED <<task_queue, putting>>
  /\ UNCHANGED <<triggers, dispatchFrame>>

\* await task_queue.put(task) completes once the queue has room
PutResumes ==
  /\ putting # <<>>
  /\ Len(task_queue) < TaskQueueSize
  /\ task_queue' = Append(task_queue, putting[1])
  /\ putting' = <<>>
  /\ lastDispatch' = <<[event |-> putting[1].event,
                        dispatched |-> {PluginName}]>>
  /\ UNCHANGED <<triggers, dispatchFrame>>

\* _worker: task_queue.get() and _execute_plugin, which runs the sandbox
\* whatever the breaker holds for the plugin; the status and counters of the
\* PluginInstance are left out.
WorkerExecute ==
  /\ task_queue # <<>>
  /\ task_queue' = Tail(task_queue)
  /\ lastExec' = [via |-> "worker", state |-> health.state,
                  started |-> TRUE, error |-> ""]
  /\ UNCHANGED <<triggers, putting, lastDispatch, health, redisHealth, now,
                 event_bus_client, systemEvents, failRun, inflight, busVars,
                 replayVars,
                 watchdogVars, sandboxVars, goalVars,
      stepVars, raceVars>>

DispatchNext ==
  \/ \E event \in Events : DispatchEvent(event)
  \/ PutResumes
  \/ WorkerExecute

\* ------------------------------------- plugin_manager : enhanced_manager
AlertFailures == 5

\* execute_plugin: the breaker check, the handler, the breaker record and
\* the alert
ExecutePlugin(raises, error) ==
  /\ IsPluginHealthy(health, now) => health.total_executions < MaxExecutions
  /\ IF ~IsPluginHealthy(health, now)
     THEN /\ lastExec' = [via |-> "execute_plugin", state |-> health.state,
                          started |-> FALSE, error |-> health.state]
          /\ UNCHANGED <<health, redisHealth, systemEvents, failRun>>
     ELSE IF ~raises
          THEN /\ health' = SuccessUpdate(health, now)
               /\ redisHealth' = SaveState(health')
               /\ failRun' = RunAfter(health')
               /\ lastExec' = [via |-> "execute_plugin",
                               state |-> health.state,
                               started |-> TRUE, error |-> ""]
               /\ UNCHANGED systemEvents
          ELSE /\ health' = FailureUpdate(health, now, error)
               /\ redisHealth' = SaveState(health')
               /\ failRun' = RunAfterFailure(failRun)
               /\ lastExec' = [via |-> "execute_plugin",
                               state |-> health.state,
                               started |-> TRUE, error |-> error]
               /\ systemEvents' =
                    IF ShouldDisable(health') /\ event_bus_client
                    THEN Append(systemEvents,
                                [topic |-> "system.v1",
                                 event_type |-> "plugin_disabled",
                                 plugin |-> PluginName, reason |-> error,
                                 consecutive_failures |-> AlertFailures])
                    ELSE systemEvents
  /\ UNCHANGED <<now, event_bus_client, breakerFrame>>

\* execute_plugin in two steps, so that calls for the plugin overlap: the
\* breaker check, then the handler returns or raises and the outcome is
\* recorded.
MaxInflight == 2       \* execute_plugin calls awaiting their handler

inflightFrame == <<now, event_bus_client, lastExec, busVars, replayVars,
                   dispatchVars, watchdogVars, sandboxVars, goalVars,
                   stepVars, raceVars>>

ExecuteBegins ==
  /\ IsPluginHealthy(health, now)
  /\ inflight < MaxInflight
  /\ health.total_executions + inflight < MaxExecutions
  /\ inflight' = inflight + 1
  /\ UNCHANGED <<health, redisHealth, systemEvents, failRun, inflightFrame>>

ExecuteEnds(raises, error) ==
  /\ inflight > 0
  /\ inflight' = inflight - 1
  /\ IF ~raises
     THEN /\ health' = SuccessUpdate(health, now)
          /\ redisHealth' = SaveState(health')
          /\ failRun' = RunAfter(health')
          /\ UNCHANGED systemEvents
     ELSE /\ health' = FailureUpdate(health, now, error)
          /\ redisHealth' = SaveState(health')
          /\ failRun' = RunAfterFailure(failRun)
          /\ systemEvents' =
               IF ShouldDisable(health') /\ event_bus_client
               THEN Append(systemEvents,
                           [topic |-> "system.v1",
                            event_type |-> "plugin_disabled",
                            plugin |-> PluginName, reason |-> error,
                            consecutive_failures |-> AlertFailures])
               ELSE systemEvents
  /\ UNCHANGED inflightFrame

InflightNext ==
  \/ ExecuteBegins
  \/ \E raises \in BOOLEAN, error \in Errors : ExecuteEnds(raises, error)
  \/ TimePasses

ManagerEvents == {[topic |-> "a.v1", event_type |-> "x",
                   payload |-> {<<"k", 1>>}]}

ManagerNext ==
  \/ \E raises \in BOOLEAN, error \in Errors : ExecutePlugin(raises, error)
  \/ ResetPlugin
  \/ \E minutes \in PauseMinutes : PausePlugin(minutes)
  \/ TimePasses
  \/ \E event \in ManagerEvents : DispatchEvent(event)
  \/ PutResumes
  \/ WorkerExecute

\* ------------------------------------- sandbox.py, watchdog.py : containers
\* The container runtime holds up to MaxContainers containers.  Time is
\* counted in ticks; the watchdog loop runs every CheckInterval ticks.
MaxContainers == 2     \* containers the runtime holds
ContainerTtl == 2      \* ContainerWatchdog.container_ttl, in ticks
CheckInterval == 1     \* ContainerWatchdog.check_interval, in ticks

ContainerIds == 1..MaxContainers

\* ages are counted up to one tick past the watchdog's bound
AgeCap == ContainerTtl + CheckInterval + 1

LabelFilter == "titan.plugin"

\* the --label options of _build_container_command: there are none
SandboxLabels == {}

\* event_data['docker_labels'], applied by a handler that starts a container
HandlerLabels == {"titan.plugin", "titan.plugin.name", "titan.event.id"}

NoContainer ==
  [present |-> FALSE, labels |-> {}, state |-> "exited", age |-> 0,
   by |-> "none"]

WatchdogInit ==
  /\ containers = [c \in ContainerIds |-> NoContainer]
  /\ sinceCycle = 0
  /\ cycled = FALSE

watchdogFrame == <<busVars, replayVars, breakerVars, dispatchVars,
                   sandboxVars, goalVars,
      stepVars, raceVars>>

Launch(c, labels, by) ==
  /\ ~containers[c].present
  /\ containers' = [containers EXCEPT ![c] =
                      [present |-> TRUE, labels |-> labels,
                       state |-> "running", age |-> 0, by |-> by]]
  /\ UNCHANGED <<sinceCycle, cycled, watchdogFrame>>

\* SandboxExecutor._run_container: <runtime> run --rm --name ... <image>
SandboxRun(c) == Launch(c, SandboxLabels, "sandbox")

\* a plugin handler starts a container with the labels it was handed
HandlerRun(c) == Launch(c, HandlerLabels, "handler")

\* the container's process ends; --rm removes a sandbox container
ContainerExits(c) ==
  /\ containers[c].present
  /\ containers[c].state = "running"
  /\ containers' = [containers EXCEPT ![c] =
                      IF @.by = "sandbox"
                      THEN NoContainer
                      ELSE [@ EXCEPT !.state = "exited"]]
  /\ UNCHANGED <<sinceCycle, cycled, watchdogFrame>>

\* asyncio.sleep(check_interval) of _monitor_loop, one tick of it
WatchdogSleep ==
  /\ sinceCycle < CheckInterval
  /\ sinceCycle' = sinceCycle + 1
  /\ containers' = [c \in ContainerIds |->
                      IF containers[c].present
                      THEN [containers[c] EXCEPT
                              !.age = Min(@ + 1, AgeCap)]
                      ELSE containers[c]]
  /\ UNCHANGED <<cycled, watchdogFrame>>

\* docker ps -a -f label=<label_filter>
list_plugin_containers ==
  {c \in ContainerIds :
     containers[c].present /\ LabelFilter \in containers[c].labels}

\* one pass of _monitor_loop: cleanup_expired_containers, then
\* cleanup_exited_containers
WatchdogCycle ==
  /\ sinceCycle = CheckInterval
  /\ LET expired == {c \in list_plugin_containers :
                       containers[c].age > ContainerTtl}
         exited == {c \in list_plugin_containers \ expired :
                      containers[c].state = "exited"}
     IN containers' = [c \in ContainerIds |->
                         IF c \in expired \cup exited
                         THEN NoContainer
                         ELSE containers[c]]
  /\ sinceCycle' = 0
  /\ cycled' = TRUE
  /\ UNCHANGED watchdogFrame

WatchdogNext ==
  \/ \E c \in ContainerIds : SandboxRun(c)
  \/ \E c \in ContainerIds : HandlerRun(c)
  \/ \E c \in ContainerIds : ContainerExits(c)
  \/ WatchdogSleep
  \/ WatchdogCycle

\* ------------------------------------------- sandbox.py : SandboxExecutor
\* One plugin is invoked, for bus events and for manual triggers.  Wall-clock
\* time advances in ticks of one second, the same for every invocation.
MaxInvocations == 2
SandboxTimeoutSec == 2         \* SandboxConfig.timeout_sec, scaled
MaxPluginTimeout == 2
PluginTimeouts == 1..MaxPluginTimeout

NamePrefixLen == 8             \* task.event_id[:8]
UlidTimeChars == 10            \* a ULID starts with 10 base-32 digits of ms
UlidBase == 32
ManualPrefixLen == 7           \* len("manual-")

RECURSIVE Pow(_, _)
Pow(b, e) == IF e = 0 THEN 1 ELSE b * Pow(b, e - 1)

RECURSIVE LeadingDigits(_, _)
\* the first n decimal digits of the positive number t, as a number
LeadingDigits(t, n) ==
  IF t < Pow(10, n) THEN t ELSE LeadingDigits(t \div 10, n)

\* Event.event_id is str(ulid.new()): milliseconds, then randomness.
UlidTimes == {0, 1, 1024}
UlidRands == {0, 1}
UlidIds == [kind : {"ulid"}, t : UlidTimes, r : UlidRands]

\* trigger_plugin_manually: f"manual-{datetime.utcnow().timestamp()}"
ManualTimes == {1762214400, 1762214401}
ManualIds == [kind : {"manual"}, t : ManualTimes, r : {0}]

EventIds == UlidIds \cup ManualIds

\* event_id[:8]: of a ULID the 8 leading digits of its 10-digit millisecond
\* part; of a manual id "manual-" and the first digit of the timestamp.
IdPrefix(event_id) ==
  IF event_id.kind = "ulid"
  THEN <<"", event_id.t \div Pow(UlidBase, UlidTimeChars - NamePrefixLen)>>
  ELSE <<"manual-",
         LeadingDigits(event_id.t, NamePrefixLen - ManualPrefixLen)>>

\* f"titan-plugin-{plugin_config.name}-{task.event_id[:8]}"
ContainerName(plugin, event_id) == <<"titan-plugin", plugin, IdPrefix(event_id)>>

sandboxFrame == <<busVars, replayVars, breakerVars, dispatchVars,
                  watchdogVars, goalVars,
      stepVars, raceVars>>

NoResult == <<>>
PluginResult(success, error, n) ==
  <<[success |-> success, error |-> error, n |-> n]>>

SandboxInit ==
  /\ timeout_sec = 1
  /\ invocations = <<>>

\* any plugin descriptor
AnyPluginInit ==
  /\ timeout_sec \in PluginTimeouts
  /\ invocations = <<>>

\* execute() up to the start of the container (or to the launch exception,
\* which execute turns into a failure result)
StartInvocation(event_id, launched) ==
  /\ Len(invocations) < MaxInvocations
  /\ invocations' = Append(invocations,
       [event_id |-> event_id,
        name |-> ContainerName(PluginName, event_id),
        plugin_timeout |-> timeout_sec,
        elapsed |-> 0,
        status |-> IF launched THEN "running" ELSE "returned",
        result |-> IF launched THEN NoResult
                   ELSE PluginResult(FALSE, "launch", 0)])
  /\ UNCHANGED timeout_sec

\* a pool worker runs the plugin for a bus event
SandboxExecute(event_id, launched) ==
  /\ event_id \in UlidIds
  /\ StartInvocation(event_id, launched)
  /\ UNCHANGED sandboxFrame

\* trigger_plugin_manually at wall-clock second t
TriggerPluginManually(t, launched) ==
  /\ StartInvocation([kind |-> "manual", t |-> t, r |-> 0], launched)
  /\ UNCHANGED sandboxFrame

Running(i) == invocations[i].status = "running"

\* one second passes; wait_for fires no later than its timeout
SandboxTick ==
  /\ \E i \in DOMAIN invocations : Running(i)
  /\ \A i \in DOMAIN invocations :
       Running(i) => invocations[i].elapsed < SandboxTimeoutSec
  /\ invocations' = [i \in DOMAIN invocations |->
       IF Running(i)
       THEN [invocations[i] EXCEPT !.elapsed = @ + 1]
       ELSE invocations[i]]
  /\ UNCHANGED <<timeout_sec, sandboxFrame>>

\* _run_container returns: the container exited before the deadline
ContainerReturns(i, exit_code) ==
  /\ Running(i)
  /\ invocations[i].elapsed < SandboxTimeoutSec
  /\ invocations' = [invocations EXCEPT
       ![i].status = "returned",
       ![i].result = PluginResult(exit_code = 0, "", 0)]
  /\ UNCHANGED <<timeout_sec, sandboxFrame>>

\* wait_for(proc.communicate(), timeout=self.config.timeout_sec) expires:
\* the container is killed and execute returns "Timeout after <N>s"
RunContainerTimeout(i) ==
  /\ Running(i)
  /\ invocations[i].elapsed = SandboxTimeoutSec
  /\ invocations' = [invocations EXCEPT
       ![i].status = "returned",
       ![i].result = PluginResult(FALSE, "Timeout after", SandboxTimeoutSec)]
  /\ UNCHANGED <<timeout_sec, sandboxFrame>>

SandboxNext ==
  \/ \E e \in UlidIds, l \in BOOLEAN : SandboxExecute(e, l)
  \/ \E t \in ManualTimes, l \in BOOLEAN : TriggerPluginManually(t, l)
  \/ SandboxTick
  \/ \E i \in DOMAIN invocations, c \in {0, 1} : ContainerReturns(i, c)
  \/ \E i \in DOMAIN invocations : RunContainerTimeout(i)

\* ------------------------------------------------ goal_scheduler : storage
\* Every storage call (get, then save) is taken as one step.  The 7-day
\* expiry of finished instances and cleanup_old_instances are left out: no
\* hash disappears.  Instance ids are numbered in creation order.
MaxClock == 3
MaxCalls == 2
MaxInstances == 3
MaxConcurrentGoals == 1        \* SchedulerConfig.max_concurrent_goals, scaled
ConcurrentGoals == 2           \* max_concurrent_goals with room for two tasks
RetryAttempts == 1             \* RetryConfig.attempts, scaled
BackoffSec == 1                \* RetryConfig.backoff_sec, scaled
EveryInterval == 1             \* schedule "@every 1s"

GoalPending == "PENDING"
GoalInProgress == "IN_PROGRESS"
GoalFailed == "FAILED"
GoalSucceeded == "SUCCEEDED"
GoalPaused == "PAUSED"

InstanceIds == 1..MaxInstances
GoalIds == {"g1"}
TriggerTopic == "system.v1"

\* A schedule is the sequence of its words (str.split), a word the sequence
\* of its characters.
DigitChars == <<"0", "1", "2", "3", "4", "5", "6", "7", "8", "9">>
DigitSet == {DigitChars[k] : k \in DOMAIN DigitChars}
DigitValue(c) == (CHOOSE k \in DOMAIN DigitChars : DigitChars[k] = c) - 1

EveryWord == <<"@", "e", "v", "e", "r", "y">>

\* str.startswith
StartsWith(word, prefix) ==
  /\ Len(word) >= Len(prefix)
  /\ SubSeq(word, 1, Len(prefix)) = prefix

\* str.rstrip(c)
RECURSIVE RStrip(_, _)
RStrip(word, c) ==
  IF word # <<>> /\ word[Len(word)] = c
  THEN RStrip(SubSeq(word, 1, Len(word) - 1), c)
  ELSE word

RECURSIVE DecimalValue(_)
DecimalValue(digits) ==
  IF digits = <<>> THEN 0
  ELSE 10 * DecimalValue(SubSeq(digits, 1, Len(digits) - 1))
         + DigitValue(digits[Len(digits)])

\* int(text): <<n>>, or <<>> where int raises ValueError
ParseInt(text) ==
  LET signed == text # <<>> /\ text[1] \in {"-", "+"}
      digits == IF signed THEN Tail(text) ELSE text
  IN IF digits = <<>> \/ \E k \in DOMAIN digits : digits[k] \notin DigitSet
     THEN <<>>
     ELSE IF signed /\ text[1] = "-" THEN <<0 - DecimalValue(digits)>>
          ELSE <<DecimalValue(digits)>>

\* croniter over the cron expressions of the model: "* * * * *" gives the
\* next full minute, the other expression is malformed and raises
CronEveryMinute == <<<<"*">>, <<"*">>, <<"*">>, <<"*">>, <<"*">>>>
SecondsPerMinute == 60

\* the schedule "@every <n>s"
EverySeconds(n) == <<EveryWord, <<DigitChars[n + 1], "s">>>>

\* _calculate_next_run(schedule) at time t: <<next_run>>, or <<>> for None
CalculateNextRun(sched, t) ==
  IF StartsWith(sched[1], EveryWord)
  THEN IF Len(sched) < 2 THEN <<>>
       ELSE LET interval == ParseInt(RStrip(sched[2], "s"))
            IN IF interval = <<>> THEN <<>> ELSE <<t + interval[1]>>
  ELSE IF sched = CronEveryMinute
       THEN <<(t \div SecondsPerMinute + 1) * SecondsPerMinute>>
       ELSE <<>>

\* `if next_run:`
Truthy(next_run) == next_run # <<>> /\ next_run[1] # 0

NoSchedule == <<>>

\* the YAML file of goals_dir: a goal with a schedule and a trigger topic,
\* which runs the internal step "noop" {msg: "hi"} and then a second step
GoalConfig(goal_id) ==
  [id |-> goal_id,
   schedule |-> schedule,
   triggers |-> {TriggerTopic},
   steps |-> <<[id |-> "noop", params |-> "hi"],
               [id |-> "report", params |-> ""]>>,
   retry |-> [attempts |-> RetryAttempts, backoff_sec |-> BackoffSec]]

\* trigger_event: None, {"params": params} of a run-now request, or an event
TriggerEvent(topic, event_type, params) ==
  [topic |-> topic, event_type |-> event_type, params |-> params]
NoEvent == TriggerEvent("", "", "")

\* _create_instance
CreateInstance(goal_id, next_run_ts, trigger_event) ==
  [goal_id |-> goal_id,
   state |-> GoalPending,
   current_step |-> 0,
   next_run_ts |-> next_run_ts,
   fail_count |-> 0,
   last_error |-> "",
   started_at |-> NoTime,
   completed_at |-> NoTime,
   trigger_event |-> trigger_event,
   step_results |-> {}]

SaveQueue_KeepsMember(queue, id, inst) == queue \cup {id}

\* save_instance: the members of goal_queue after saving inst under id
SaveQueue(queue, id, inst) ==
  IF /\ inst.next_run_ts # NoTime
     /\ inst.next_run_ts # 0
     /\ inst.state \in {GoalPending, GoalInProgress}
  THEN queue \cup {id}
  ELSE queue \ {id}

\* update_instance_state, on the instance read from storage
UpdateInstanceState(inst, state, error, t) ==
  [inst EXCEPT
     !.state = state,
     !.last_error = IF error # "" THEN error ELSE @,
     !.fail_count = IF error # "" THEN @ + 1 ELSE @,
     !.started_at = IF state = GoalInProgress THEN t ELSE @,
     !.completed_at = IF state \in {GoalSucceeded, GoalFailed} THEN t ELSE @]

\* the key increment_step builds from the stored step counter
StepKey(current_step) == <<"step_", current_step>>
\* the key a step id makes
IdKey(step_id) == <<step_id, -1>>

\* increment_step
IncrementStep_NotSaved(inst, step_result) == inst

IncrementStep(inst, step_result) ==
  [inst EXCEPT
     !.step_results = {kv \in @ : kv[1] # StepKey(inst.current_step)}
                        \cup {<<StepKey(inst.current_step), step_result>>},
     !.current_step = @ + 1]

\* executor_simple._execute_internal_step
StepResult(step) ==
  [status |-> "completed", step_id |-> step.id, params |-> step.params]

\* get_ready_instances(limit): the first `limit` members of goal_queue with
\* score <= now, in score order (ties in any order)
ReadySets(limit) ==
  LET ready == {i \in goal_queue : instances[i].next_run_ts <= clock}
      n == Min(limit, Cardinality(ready))
  IN {R \in SUBSET ready :
        /\ Cardinality(R) = n
        /\ \A a \in R, b \in ready \ R :
             instances[a].next_run_ts <= instances[b].next_run_ts}

\* .tasks counts the tasks created for the id that have not returned
Idle == [pc |-> "idle", instance |-> <<>>, i |-> 0, tasks |-> 0]
NewTask == [pc |-> "start", instance |-> <<>>, i |-> 0, tasks |-> 1]
Active == {i \in InstanceIds : active_goals[i].pc # "idle"}

\* the for loop of _scheduler_loop over the ready ids R: the ids it starts
LoopStarts_NoLimit(R) ==
  {i \in goal_queue : instances[i].next_run_ts <= clock} \ Active

\* the for loop without the test `instance_id not in self._active_goals`
LoopStarts_StartsActive(R) ==
  LET room == max_concurrent_goals - Cardinality(Active)
  IN IF Cardinality(R) <= room THEN R
     ELSE CHOOSE S \in SUBSET R : Cardinality(S) = room

LoopStarts(R) ==
  LET new == R \ Active
      room == max_concurrent_goals - Cardinality(Active)
  IN IF Cardinality(new) <= room THEN new
     ELSE CHOOSE S \in SUBSET new : Cardinality(S) = room

StorageInit ==
  /\ clock = 1
  /\ started = FALSE
  /\ goals = {}
  /\ instances = <<>>
  /\ goal_queue = {}
  /\ active_goals = [i \in InstanceIds |-> Idle]
  /\ arrived = {}
  /\ failures = [i \in InstanceIds |-> 0]
  /\ lastCall = [op |-> "none", changed |-> FALSE, n |-> 0]

\* the schedules a goal file may carry
Schedules ==
  {EverySeconds(n) : n \in 0 .. EveryInterval}
    \cup {<<EveryWord, w>> : w \in {<<"-", "1", "s">>, <<"1">>, <<"1", "m">>,
                                    <<"s">>}}
    \cup {<<EveryWord>>, CronEveryMinute, <<<<"x">>>>}

\* the scheduler as configured with max_concurrent_goals = limit, its goal
\* with the schedule "@every <EveryInterval>s"
GoalInitWith(limit) ==
  /\ StorageInit
  /\ max_concurrent_goals = limit
  /\ schedule = EverySeconds(EveryInterval)

GoalInit == GoalInitWith(MaxConcurrentGoals)

\* the goal carries any of the schedules
AnyScheduleInit ==
  /\ StorageInit
  /\ max_concurrent_goals = MaxConcurrentGoals
  /\ schedule \in Schedules

\* ---------------------------------------------- goal_scheduler : scheduler
goalFrame == <<busVars, replayVars, breakerVars, dispatchVars, watchdogVars,
               sandboxVars, max_concurrent_goals, schedule, stepVars, raceVars>>

\* storage.save_instance of a new instance
SaveNew(inst) ==
  /\ instances' = Append(instances, inst)
  /\ goal_queue' = SaveQueue(goal_queue, Len(instances) + 1, inst)

\* storage.save_instance of the instance stored under id
Save(id, inst) ==
  /\ instances' = [instances EXCEPT ![id] = inst]
  /\ goal_queue' = SaveQueue(goal_queue, id, inst)

Live(goal_id) ==
  {i \in DOMAIN instances :
     /\ instances[i].goal_id = goal_id
     /\ instances[i].state \in {GoalPending, GoalInProgress}}

\* next_run = self._calculate_next_run(goal_config.schedule)
NextRun == CalculateNextRun(schedule, clock)

\* start(): load_all, then _initialize_scheduled_goals
StartScheduler(files) ==
  /\ ~started
  /\ started' = TRUE
  /\ goals' = files
  /\ IF /\ \E g \in files :
             GoalConfig(g).schedule # NoSchedule /\ Live(g) = {}
        /\ Truthy(NextRun)
     THEN /\ Len(instances) < MaxInstances
          /\ \E g \in files :
               SaveNew(CreateInstance(g, NextRun[1], NoEvent))
     ELSE UNCHANGED <<instances, goal_queue>>
  /\ UNCHANGED <<clock, active_goals, arrived, failures, lastCall,
                 goalFrame>>

\* POST /goals/reload: loader.reload() over the files now in goals_dir
ReloadGoals(files) ==
  /\ started
  /\ goals' = files
  /\ UNCHANGED <<clock, started, instances, goal_queue, active_goals,
                 arrived, failures, lastCall, goalFrame>>

ClockAdvance ==
  /\ clock < MaxClock
  /\ clock' = clock + 1
  /\ UNCHANGED <<started, goals, instances, goal_queue, active_goals,
                 arrived, failures, lastCall, goalFrame>>

\* one iteration of _scheduler_loop
SchedulerLoop ==
  /\ started
  /\ \E R \in ReadySets(max_concurrent_goals - Cardinality(Active)) :
       /\ LoopStarts(R) # {}
       /\ active_goals' = [i \in InstanceIds |->
            IF i \in LoopStarts(R)
            THEN [NewTask EXCEPT !.tasks = active_goals[i].tasks + 1]
            ELSE active_goals[i]]
  /\ UNCHANGED <<clock, started, goals, instances, goal_queue, arrived,
                 failures, lastCall, goalFrame>>

\* _run_goal_instance up to the step loop: the instance is read once, the
\* goal looked up, and the stored instance set IN_PROGRESS.  When a task
\* returns, its done callback pops it from _active_goals.
TaskBegin(i) ==
  /\ active_goals[i].pc = "start"
  /\ IF instances[i].goal_id \notin goals
     THEN /\ Save(i, UpdateInstanceState(instances[i], GoalFailed,
                                         "Goal config not found", clock))
          /\ active_goals' = [active_goals EXCEPT ![i] = Idle]
     ELSE /\ Save(i, UpdateInstanceState(instances[i], GoalInProgress, "",
                                         clock))
          /\ active_goals' = [active_goals EXCEPT
               ![i].pc = "steps", ![i].instance = <<instances[i]>>,
               ![i].i = instances[i].current_step]
  /\ UNCHANGED <<clock, started, goals, arrived, failures, lastCall,
                 goalFrame>>

Steps(i) == GoalConfig(instances[i].goal_id).steps

\* _execute_steps: executor.execute_step is called for step number .i
StepBegins(i) ==
  /\ active_goals[i].pc = "steps"
  /\ active_goals[i].i < Len(Steps(i))
  /\ active_goals' = [active_goals EXCEPT ![i].pc = "running"]
  /\ UNCHANGED <<clock, started, goals, instances, goal_queue, arrived,
                 failures, lastCall, goalFrame>>

\* the step returns and its result is stored by increment_step
StepSucceeds(i) ==
  /\ active_goals[i].pc = "running"
  /\ Save(i, IncrementStep(instances[i],
                           StepResult(Steps(i)[active_goals[i].i + 1])))
  /\ active_goals' = [active_goals EXCEPT ![i].pc = "steps", ![i].i = @ + 1]
  /\ UNCHANGED <<clock, started, goals, arrived, failures,
                 lastCall, goalFrame>>

\* the step times out or raises: _execute_steps stores FAILED and the error
StepFails(i) ==
  /\ active_goals[i].pc = "running"
  /\ Save(i, UpdateInstanceState(instances[i], GoalFailed, "Step failed",
                                 clock))
  /\ active_goals' = [active_goals EXCEPT ![i].pc = "failed"]
  /\ failures' = [failures EXCEPT ![i] = @ + 1]
  /\ UNCHANGED <<clock, started, goals, arrived, lastCall,
                 goalFrame>>

\* every step is done: SUCCEEDED, and the next run of a periodic goal
TaskSucceeds(i) ==
  /\ active_goals[i].pc = "steps"
  /\ active_goals[i].i >= Len(Steps(i))
  /\ LET done == [instances EXCEPT
                    ![i] = UpdateInstanceState(@, GoalSucceeded, "", clock)]
         queue == SaveQueue(goal_queue, i, done[i])
         next == CreateInstance(instances[i].goal_id, NextRun[1], NoEvent)
     IN IF GoalConfig(instances[i].goal_id).schedule # NoSchedule
           /\ Truthy(NextRun)
        THEN /\ Len(instances) < MaxInstances
             /\ instances' = Append(done, next)
             /\ goal_queue' = SaveQueue(queue, Len(instances) + 1, next)
        ELSE /\ instances' = done
             /\ goal_queue' = queue
  /\ active_goals' = [active_goals EXCEPT ![i] = Idle]
  /\ UNCHANGED <<clock, started, goals, arrived, failures,
                 lastCall, goalFrame>>

\* _execute_steps returned False: the test and the save both use the
\* instance object read at the start of the task
TaskRetryOrFail(i) ==
  /\ active_goals[i].pc = "failed"
  /\ LET instance == active_goals[i].instance[1]
         retry == GoalConfig(instances[i].goal_id).retry
     IN IF instance.fail_count < retry.attempts
        THEN Save(i, [instance EXCEPT
               !.next_run_ts = clock + retry.backoff_sec * (instance.fail_count + 1),
               !.state = GoalPending])
        ELSE LET failed == [instances EXCEPT
                   ![i] = UpdateInstanceState(@, GoalFailed, "", clock)]
                 queue == SaveQueue(goal_queue, i, failed[i])
                 next == CreateInstance(instances[i].goal_id,
                                        NextRun[1], NoEvent)
             IN IF GoalConfig(instances[i].goal_id).schedule # NoSchedule
                   /\ Truthy(NextRun)
                THEN /\ Len(instances) < MaxInstances
                     /\ instances' = Append(failed, next)
                     /\ goal_queue' = SaveQueue(queue, Len(instances) + 1,
                                                next)
                ELSE /\ instances' = failed
                     /\ goal_queue' = queue
  /\ active_goals' = [active_goals EXCEPT ![i] = Idle]
  /\ UNCHANGED <<clock, started, goals, arrived, failures,
                 lastCall, goalFrame>>

\* run_goal_now(goal_id, params)
RunGoalNow(goal_id, params) ==
  /\ started
  /\ goal_id \in goals
  /\ Len(instances) < MaxInstances
  /\ SaveNew(CreateInstance(goal_id, clock,
                            TriggerEvent("", "", params)))
  /\ UNCHANGED <<clock, started, goals, active_goals, arrived,
                 failures, lastCall, goalFrame>>

\* pause_goal(instance_id)
PauseGoal(i) ==
  /\ started
  /\ i \in DOMAIN instances
  /\ lastCall.n < MaxCalls
  /\ Save(i, UpdateInstanceState(instances[i], GoalPaused, "", clock))
  /\ lastCall' = [op |-> "pause", changed |-> TRUE, n |-> lastCall.n + 1]
  /\ UNCHANGED <<clock, started, goals, active_goals, arrived,
                 failures, goalFrame>>

\* resume_goal(instance_id)
ResumeGoal(i) ==
  /\ started
  /\ i \in DOMAIN instances
  /\ lastCall.n < MaxCalls
  /\ IF instances[i].state = GoalPaused
     THEN /\ Save(i, [instances[i] EXCEPT !.state = GoalPending,
                                          !.next_run_ts = clock])
          /\ lastCall' = [op |-> "resume", changed |-> TRUE,
                          n |-> lastCall.n + 1]
     ELSE /\ UNCHANGED <<instances, goal_queue>>
          /\ lastCall' = [op |-> "resume", changed |-> FALSE,
                          n |-> lastCall.n + 1]
  /\ UNCHANGED <<clock, started, goals, active_goals, arrived,
                 failures, goalFrame>>

\* an event is published on the trigger topic of the goal;
\* _event_listener only sleeps, so nothing of the scheduler changes
EventArrives(event) ==
  /\ started
  /\ arrived' = arrived \cup {event}
  /\ UNCHANGED <<clock, started, goals, instances, goal_queue, active_goals,
                 failures, lastCall, goalFrame>>

TriggerEvents == {TriggerEvent(TriggerTopic, "deploy", "")}

\* the scheduler loop and the goal tasks
LoopNext ==
  \/ \E files \in SUBSET GoalIds : StartScheduler(files)
  \/ ClockAdvance
  \/ SchedulerLoop
  \/ \E i \in InstanceIds :
       \/ TaskBegin(i)
       \/ StepBegins(i)
       \/ StepSucceeds(i)
       \/ StepFails(i)
       \/ TaskSucceeds(i)
       \/ TaskRetryOrFail(i)

\* with run-now requests
SchedulerNext ==
  \/ LoopNext
  \/ \E g \in GoalIds, params \in {"p"} : RunGoalNow(g, params)

\* with pause and resume requests
PauseNext ==
  \/ LoopNext
  \/ \E i \in InstanceIds : PauseGoal(i) \/ ResumeGoal(i)

\* with reloads of goals_dir and events on the trigger topic
ListenerNext ==
  \/ SchedulerNext
  \/ \E files \in SUBSET GoalIds : ReloadGoals(files)
  \/ \E e \in TriggerEvents : EventArrives(e)

\* ------------------------------------------ goal_scheduler : step deadlines
\* _execute_steps over the steps of the goal, with the time each step has
\* been running.  A timeout_sec of 0 is falsy.
MaxTimeoutSec == 2     \* timeout_sec values of the goal file, 0..MaxTimeoutSec

StepCount == Len(GoalConfig("g1").steps)

stepFrame == <<busVars, replayVars, breakerVars, dispatchVars, watchdogVars,
               sandboxVars, goalVars, raceVars>>

\* timeout=step.timeout_sec or goal_config.timeout_sec
StepDeadline(step_timeout, goal_timeout) ==
  IF step_timeout # 0 THEN step_timeout ELSE goal_timeout

NoError == [kind |-> "", step |-> 0, after |-> 0]
\* f"Step {step.id} timed out after {step.timeout_sec}s"
TimeoutError(i, step_timeout) ==
  [kind |-> "timed out", step |-> i, after |-> step_timeout]

\* a goal file with the default timeouts, scaled
DefaultStepInit ==
  /\ step_timeouts = [k \in 1 .. StepCount |-> 1]
  /\ goal_timeout_sec = MaxTimeoutSec
  /\ execution = [i |-> 1, pc |-> "loop", elapsed |-> 0,
                  state |-> GoalInProgress, last_error |-> NoError]

StepInit ==
  /\ step_timeouts \in [1 .. StepCount -> 0 .. MaxTimeoutSec]
  /\ goal_timeout_sec \in 1 .. MaxTimeoutSec
  /\ execution = [i |-> 1, pc |-> "loop", elapsed |-> 0,
                  state |-> GoalInProgress, last_error |-> NoError]

Deadline == StepDeadline(step_timeouts[execution.i], goal_timeout_sec)

\* asyncio.wait_for(self.executor.execute_step(step, context), timeout=...)
ExecuteStepBegins ==
  /\ execution.pc = "loop"
  /\ execution.i <= StepCount
  /\ execution' = [execution EXCEPT !.pc = "running", !.elapsed = 0]
  /\ UNCHANGED <<step_timeouts, goal_timeout_sec, stepFrame>>

\* a second passes while the step runs
StepSecondPasses ==
  /\ execution.pc = "running"
  /\ execution.elapsed < Deadline
  /\ execution' = [execution EXCEPT !.elapsed = @ + 1]
  /\ UNCHANGED <<step_timeouts, goal_timeout_sec, stepFrame>>

\* the step returns before the timeout of wait_for
ExecuteStepReturns ==
  /\ execution.pc = "running"
  /\ execution.elapsed < Deadline
  /\ execution' = [execution EXCEPT !.pc = "loop", !.i = @ + 1]
  /\ UNCHANGED <<step_timeouts, goal_timeout_sec, stepFrame>>

\* wait_for cancels the step and raises asyncio.TimeoutError
StepTimesOut ==
  /\ execution.pc = "running"
  /\ execution.elapsed = Deadline
  /\ execution' = [execution EXCEPT
       !.pc = "returned",
       !.state = GoalFailed,
       !.last_error = TimeoutError(execution.i,
                                   step_timeouts[execution.i])]
  /\ UNCHANGED <<step_timeouts, goal_timeout_sec, stepFrame>>

\* the loop is over: _execute_steps returns True and the task stores
\* SUCCEEDED
StepsDone ==
  /\ execution.pc = "loop"
  /\ execution.i > StepCount
  /\ execution' = [execution EXCEPT !.pc = "returned",
                                    !.state = GoalSucceeded]
  /\ UNCHANGED <<step_timeouts, goal_timeout_sec, stepFrame>>

StepNext ==
  \/ ExecuteStepBegins
  \/ StepSecondPasses
  \/ ExecuteStepReturns
  \/ StepTimesOut
  \/ StepsDone

\* --------------------------------------- goal_scheduler : storage commands
\* The storage calls on one running instance, each await of a Redis command
\* a step of its own.  The goal task calls increment_step after each of
\* its steps; requests call pause_goal and resume_goal.  The instance has a
\* next_run_ts.
Callers == {"task", "request"}

raceFrame == <<busVars, replayVars, breakerVars, dispatchVars, watchdogVars,
               sandboxVars, goalVars, stepVars>>

NoCall == [op |-> "", pc |-> "idle",
           instance |-> [state |-> "", current_step |-> 0]]

RaceInit ==
  /\ stored = [state |-> GoalInProgress, current_step |-> 0]
  /\ indexed = TRUE
  /\ calls = [c \in Callers |-> NoCall]
  /\ completed = [steps |-> 0, state |-> GoalInProgress, requests |-> 0]

\* get_instance, and the changes the call makes to the object it got
Loaded(op, inst) ==
  IF op = "increment_step" THEN [inst EXCEPT !.current_step = @ + 1]
  ELSE IF op = "pause_goal" THEN [inst EXCEPT !.state = GoalPaused]
  ELSE [inst EXCEPT !.state = GoalPending]

\* whether save_instance adds the id to goal_queue (zadd) or removes it
Queued(inst) == inst.state \in {GoalPending, GoalInProgress}

\* the call starts: hgetall
CallBegins(c, op) ==
  /\ calls[c].pc = "idle"
  /\ IF c = "task"
     THEN op = "increment_step" /\ completed.steps < StepCount
     ELSE op \in {"pause_goal", "resume_goal"}
          /\ completed.requests < MaxCalls
  /\ IF op = "resume_goal" /\ stored.state # GoalPaused
     THEN /\ completed' = [completed EXCEPT !.requests = @ + 1]
          /\ UNCHANGED calls
     ELSE /\ calls' = [calls EXCEPT
               ![c] = [op |-> op, pc |-> "loaded",
                       instance |-> Loaded(op, stored)]]
          /\ UNCHANGED completed
  /\ UNCHANGED <<stored, indexed, raceFrame>>

\* save_instance: hset
CallWritesHash(c) ==
  /\ calls[c].pc = "loaded"
  /\ stored' = calls[c].instance
  /\ calls' = [calls EXCEPT ![c].pc = "written"]
  /\ UNCHANGED <<indexed, completed, raceFrame>>

\* save_instance: zadd or zrem, and the call returns
CallWritesQueue(c) ==
  /\ calls[c].pc = "written"
  /\ indexed' = Queued(calls[c].instance)
  /\ calls' = [calls EXCEPT ![c] = NoCall]
  /\ completed' =
       IF calls[c].op = "increment_step"
       THEN [completed EXCEPT !.steps = @ + 1]
       ELSE [completed EXCEPT !.requests = @ + 1,
                              !.state = calls[c].instance.state]
  /\ UNCHANGED <<stored, raceFrame>>

RaceNext ==
  \E c \in Callers :
    \/ \E op \in {"increment_step", "pause_goal", "resume_goal"} :
         CallBegins(c, op)
    \/ CallWritesHash(c)
    \/ CallWritesQueue(c)

\* ----------------------------------------------------------- specifications
\* The plugin manager as constructed with the given bus client setting and
\* with its plugin loaded from one of the given trigger lists.
PluginInit(clients, configs) ==
  /\ BreakerInit
  /\ event_bus_client \in clients
  /\ triggers \in configs
  /\ DispatchInit

Init ==
  /\ BusInit
  /\ ReplayInit
  /\ PluginInit({FALSE}, {DefaultTriggers})
  /\ WatchdogInit
  /\ SandboxInit
  /\ GoalInit
  /\ DefaultStepInit
  /\ RaceInit

\* The subsystems below leave the bus idle, on one stream configuration.
IdleBusInit == BusInit /\ retryLimit = 0

DefaultInit ==
  /\ IdleBusInit
  /\ ReplayInit
  /\ PluginInit({FALSE}, {DefaultTriggers})
  /\ WatchdogInit
  /\ SandboxInit
  /\ GoalInit
  /\ DefaultStepInit
  /\ RaceInit

\* replay runs on a connected client
ReplaySpec == DefaultInit /\ [][ReplayNext]_vars

BreakerSpec == DefaultInit /\ [][BreakerNext]_vars

\* the four calls with Redis failing any of the writes; no restart
FlushNext ==
  \/ RecordSuccess
  \/ \E error \in Errors : RecordFailure(error)
  \/ ResetPlugin
  \/ \E minutes \in PauseMinutes : PausePlugin(minutes)
  \/ TimePasses
  \/ SaveFails

FlushSpec == DefaultInit /\ [][FlushNext]_vars

\* the manager is constructed with or without a bus client
ManagerInit ==
  /\ IdleBusInit
  /\ ReplayInit
  /\ PluginInit(BOOLEAN, {DefaultTriggers})
  /\ WatchdogInit
  /\ SandboxInit
  /\ GoalInit
  /\ DefaultStepInit
  /\ RaceInit

ManagerSpec == ManagerInit /\ [][ManagerNext]_vars

\* overlapping execute_plugin calls for the plugin
InflightSpec == ManagerInit /\ [][InflightNext]_vars

\* the plugin is loaded with any of the trigger lists
LoadedInit ==
  /\ IdleBusInit
  /\ ReplayInit
  /\ PluginInit({FALSE}, Configs)
  /\ WatchdogInit
  /\ SandboxInit
  /\ GoalInit
  /\ DefaultStepInit
  /\ RaceInit

DispatchSpec == LoadedInit /\ [][DispatchNext]_vars

WatchdogSpec == DefaultInit /\ [][WatchdogNext]_vars

\* the sandbox runs a plugin with any configured timeout
AnyPluginDefaultInit ==
  /\ IdleBusInit
  /\ ReplayInit
  /\ PluginInit({FALSE}, {DefaultTriggers})
  /\ WatchdogInit
  /\ AnyPluginInit
  /\ GoalInit
  /\ DefaultStepInit
  /\ RaceInit

SandboxSpec == AnyPluginDefaultInit /\ [][SandboxNext]_vars

SchedulerSpec == DefaultInit /\ [][SchedulerNext]_vars

\* the scheduler is configured with room for ConcurrentGoals tasks
ConcurrentInit ==
  /\ IdleBusInit
  /\ ReplayInit
  /\ PluginInit({FALSE}, {DefaultTriggers})
  /\ WatchdogInit
  /\ SandboxInit
  /\ GoalInitWith(ConcurrentGoals)
  /\ DefaultStepInit
  /\ RaceInit

\* the goal is loaded with any of the schedules
AnyScheduleDefaultInit ==
  /\ IdleBusInit
  /\ ReplayInit
  /\ PluginInit({FALSE}, {DefaultTriggers})
  /\ WatchdogInit
  /\ SandboxInit
  /\ AnyScheduleInit
  /\ DefaultStepInit
  /\ RaceInit

\* the goal file carries any timeouts
AnyTimeoutInit ==
  /\ IdleBusInit
  /\ ReplayInit
  /\ PluginInit({FALSE}, {DefaultTriggers})
  /\ WatchdogInit
  /\ SandboxInit
  /\ GoalInit
  /\ StepInit
  /\ RaceInit

StepSpec == AnyTimeoutInit /\ [][StepNext]_vars

\* the storage calls of the task and of requests, command by command
RaceSpec == DefaultInit /\ [][RaceNext]_vars

ScheduleSpec == AnyScheduleDefaultInit /\ [][LoopNext]_vars

ConcurrentSchedulerSpec == ConcurrentInit /\ [][SchedulerNext]_vars

ConcurrentPauseSpec == ConcurrentInit /\ [][PauseNext]_vars

\* at most MaxCalls pause and resume requests are made
PauseSpec == DefaultInit /\ [][PauseNext]_vars

ListenerSpec == DefaultInit /\ [][ListenerNext]_vars

Spec == Init /\ [][Next]_vars

\* The event loop keeps running the client's start-up and the consumer task.
LiveSpec ==
  /\ Init /\ [][Next]_vars
  /\ WF_vars(Connect)
  /\ WF_vars(StartProcessor)
  /\ WF_vars(Consume)

\* ------------------------------------------------------------------ claims
Published(id) == id <= Len(streams[TopicT])

Invoked(id) == returned[id] + raised[id]

DlqEntries(id) ==
  {k \in 1..Len(streams[DeadLetterStream]) :
     streams[DeadLetterStream][k].payload.original_msg_id = id}

InDlq(id) == DlqEntries(id) # {}

InProcess(id) == pc \in {"begin", "invoke", "ack", "dlq", "dlqack"} /\ cur = id

\* C1: every event published to the topic is eventually acknowledged or
\* dead-lettered (or its dead-letter append failed, which is logged critical).
C1_AtLeastOnce ==
  \A id \in Ids :
    Published(id) ~> (acks[id] > 0 \/ InDlq(id) \/ id \in critical)

\* C2: an event whose handler raised is eventually on the dead-letter stream
\* exactly once and acknowledged (unless the dead-letter append itself fails).
C2_RetryToDeadLetter ==
  \A id \in Ids :
    (raised[id] > 0) ~>
      ((Cardinality(DlqEntries(id)) = 1 /\ acks[id] = 1) \/ id \in critical)

\* C3: an event that a limiter denied is tried again: its handlers are
\* eventually invoked (or, with no handler registered, it is acknowledged).
C3_BackPressureOnly ==
  \A id \in Ids :
    throttled[id] ~> (Invoked(id) > 0 \/ acks[id] > 0)

\* C4: when the handler loop for an event ends, every registered handler has
\* been invoked for that event, whether or not an earlier handler raised.
C4_EveryHandlerInvoked ==
  [][(pc = "invoke" /\ pc' # "invoke") =>
       returned'[batch[idx]] + raised'[batch[idx]] = handlers]_vars

\* C5: an entry with registered handlers is acknowledged only once the
\* handler loop has ended with every registered handler having returned for
\* it without raising, or when it is on the dead-letter stream; an entry whose handler raised below the retry
\* limit is not acknowledged and no error leaves its processing.
C5_LoopDone ==
  (pc # "ack" /\ pc' = "ack") =>
    (returned'[batch[idx]] = handlers /\ raised'[batch[idx]] = 0)

C5_AckStep ==
  \A id \in Ids :
    acks'[id] > acks[id] =>
      \/ handlers = 0
      \/ (pc = "ack" /\ batch[idx] = id /\ raised[id] = 0)
      \/ InDlq(id)

C5_NoAckBelowLimit ==
  \A id \in Ids :
    (Published(id) /\ raised[id] > 0
       /\ EventOf(id).meta.retries < retryLimit) =>
      (acks[id] = 0 /\ escaped[id] = "none" /\ ~InDlq(id))

C5_AckSafety ==
  [][C5_LoopDone /\ C5_AckStep]_vars /\ []C5_NoAckBelowLimit

C5_Witness ==
  \E a, b \in Ids :
    /\ raised[a] > 0 /\ retryLimit > 0 /\ ~InProcess(a) /\ acks[a] = 0
    /\ acks[b] = 1 /\ returned[b] = MaxHandlers /\ handlers = MaxHandlers

\* C6: within a batch, events reach the handlers in non-increasing priority
\* weight, and events of equal weight in log order; the batch E1 low, E2 high,
\* E3 low, E4 high, E5 medium is handled as E2, E4, E5, E1, E3.
InPriorityOrder(s) ==
  \A i, j \in 1..Len(s) :
    i < j => \/ Weight(s[i]) > Weight(s[j])
             \/ (Weight(s[i]) = Weight(s[j]) /\ s[i] < s[j])

ExamplePriorities == <<"low", "high", "low", "high", "medium">>

C6_PriorityOrder ==
  /\ InPriorityOrder(batch)
  /\ InPriorityOrder(handled)
  /\ \A i \in 1..Len(handled) : \E j \in 1..Len(batch) : batch[j] = handled[i]
  /\ SortByPriority(<<1, 2, 3, 4, 5>>,
                    [i \in 1..5 |-> WeightOf(ExamplePriorities[i])])
       = <<2, 4, 5, 1, 3>>

C6_Witness ==
  /\ Len(handled) = 2
  /\ handled[1] > handled[2]

\* C7: an entry whose handler raised at the retry limit gets exactly one
\* dead-letter entry and then exactly one acknowledgement; if the dead-letter
\* append fails the entry is not acknowledged, and the failure is logged
\* critical and raised as DeadLetterError.
C7_DeadLetterOnce ==
  \A id \in Ids :
    /\ Cardinality(DlqEntries(id)) <= 1
    /\ acks[id] <= 1
    /\ (id \in critical) = (escaped[id] = "DeadLetterError")
    /\ id \in critical => (acks[id] = 0 /\ ~InDlq(id))
    /\ (Published(id) /\ raised[id] > 0
          /\ EventOf(id).meta.retries >= retryLimit) =>
         /\ acks[id] > 0 => InDlq(id)
         /\ ~InProcess(id) =>
              \/ (Cardinality(DlqEntries(id)) = 1 /\ acks[id] = 1
                    /\ id \notin critical)
              \/ (id \in critical)

C7_Witness ==
  \E a, b \in Ids :
    /\ raised[a] > 0 /\ InDlq(a) /\ acks[a] = 1
    /\ raised[b] > 0 /\ b \in critical /\ b \in pending

\* C8: replay of the dead-letter stream yields every entry appended to it,
\* each as an event of type dead_letter carrying the original event.
C8_DeadLetterReplay ==
  /\ Len(Replay(DeadLetterStream)) = Len(streams[DeadLetterStream])
  /\ \A k \in 1..Len(Replay(DeadLetterStream)) :
       /\ Replay(DeadLetterStream)[k].event_type = "dead_letter"
       /\ "original_event" \in DOMAIN Replay(DeadLetterStream)[k].payload

\* C9: a publish call either appends one record and returns the event id or
\* fails with PublishError, whatever the cause of the failure.
C9_PublishErrorOnly == lastPublish.outcome \in {"none", "ok", "PublishError"}

\* C10: no record on any stream has a payload that serializes to more than
\* 32 KiB.
C10_PayloadBound ==
  \A name \in DOMAIN streams :
    \A k \in 1..Len(streams[name]) :
      PayloadBytes(streams[name][k].payload) <= MaxPayloadBytes

\* C11: over a log that does not change during the call and with a limit no
\* smaller than the log, replay(topic, t0, t1) yields every event whose
\* timestamp lies in [t0, t1], each once and in publish order, and never
\* yields more than limit events.
InWindow(e, t0, t1) ==
  /\ t0 = NoTime \/ e.ts >= t0
  /\ t1 = NoTime \/ e.ts <= t1

C11_ReplayLeftInverse ==
  [][lastReplay' # lastReplay =>
       LET r == lastReplay'
           due == SelectSeq(topicLog, LAMBDA e : InWindow(e, r.from, r.to))
       IN /\ Len(r.out) <= r.limit
          /\ \A i, j \in 1..Len(r.out) : i < j => r.out[i].ev < r.out[j].ev
          /\ r.limit >= Len(topicLog) =>
               \A k \in 1..Len(due) :
                 \E i \in 1..Len(r.out) : r.out[i] = due[k]]_vars

\* C12: for a plugin that was ACTIVE with no consecutive failure, after k
\* failures with no success in between the plugin is DISABLED exactly when
\* k >= failure_threshold; the failure that trips it sets disabled_until to
\* now + reset_timeout and makes is_plugin_healthy false; a success recorded
\* while ACTIVE resets consecutive_failures to 0 and leaves the plugin ACTIVE.
C12_Tracked ==
  failRun # <<>> =>
    /\ health.consecutive_failures = failRun[1]
    /\ health.state = DISABLED <=> failRun[1] >= FailureThreshold

C12_TripStep ==
  ((\E error \in Errors : RecordFailure(error))
     /\ health.state # DISABLED /\ health'.state = DISABLED) =>
    /\ health'.disabled_until = now + ResetTimeout
    /\ ~IsPluginHealthy(health', now')

C12_SuccessStep ==
  RecordSuccess /\ health.state = ACTIVE =>
    health'.consecutive_failures = 0 /\ health'.state = ACTIVE

C12_BreakerTrip ==
  [][C12_Tracked /\ C12_Tracked' /\ C12_TripStep /\ C12_SuccessStep]_vars

C12_Witness ==
  /\ failRun = <<FailureThreshold>>
  /\ health.state = DISABLED
  /\ health.total_executions > FailureThreshold
  /\ health.disabled_until = health.last_failure + ResetTimeout

\* C13: an execution attempt made while the plugin's breaker state is
\* DISABLED, by a pool worker or by a direct execute call, starts neither
\* handler nor sandbox and fails with a reason that contains 'disabled'.
C13_DisabledNeverInvoked ==
  lastExec.via # "none" /\ lastExec.state = DISABLED =>
    ~lastExec.started /\ lastExec.error = DISABLED

C15_AutoRecovery ==
  (health.state = DISABLED /\ health.disabled_until # NoTime
     /\ now >= health.disabled_until) =>
    IsPluginHealthy(health, now)

\* C16: after a restart, initialize gives the plugin the PluginHealth that
\* was last persisted, every field equal, the failure history included.
C16_RestartRestores ==
  [][Restart /\ redisHealth # <<>> => health' = redisHealth[1]]_vars

\* C17: every transition of the plugin to DISABLED publishes one
\* plugin_disabled event on system.v1 whose payload names the plugin and
\* carries the plugin's consecutive failure count at the transition.
C17_DisabledAlert ==
  [][health.state # DISABLED /\ health'.state = DISABLED =>
       /\ Len(systemEvents') = Len(systemEvents) + 1
       /\ LET alert == systemEvents'[Len(systemEvents')]
          IN /\ alert.topic = "system.v1"
             /\ alert.event_type = "plugin_disabled"
             /\ alert.plugin = PluginName
             /\ alert.consecutive_failures =
                  health'.consecutive_failures]_vars

\* C18: dispatch_event queues a task for the plugin exactly when one of its
\* triggers has the event's topic, has no event_type or the event's, and
\* has every key/value of its filter in the payload, all on that trigger.
TriggerMatches(trigger, event) ==
  /\ trigger.topic = event.topic
  /\ trigger.event_type = "" \/ trigger.event_type = event.event_type
  /\ trigger.filter \subseteq event.payload

C18_TriggerMatching ==
  lastDispatch # <<>> =>
    (PluginName \in lastDispatch[1].dispatched
       <=> \E i \in 1..Len(triggers) :
             TriggerMatches(triggers[i], lastDispatch[1].event))

\* C19: dispatch_event never waits on a full task queue, and the queue
\* never holds more than task_queue_size tasks.
C19_OverflowDrops ==
  /\ putting = <<>>
  /\ Len(task_queue) <= TaskQueueSize

\* C20: every container the sandbox executor launched carries the label the
\* watchdog filters on and, once the watchdog has run, is no older than
\* container_ttl + check_interval.
C20_SandboxSwept ==
  \A c \in ContainerIds :
    containers[c].present /\ containers[c].by = "sandbox" =>
      /\ LabelFilter \in containers[c].labels
      /\ cycled => containers[c].age <= ContainerTtl + CheckInterval

\* C21: the deadline of an invocation is the plugin's own timeout_sec: no
\* invocation is still running after the plugin's timeout_sec has elapsed,
\* and a timeout result reads "Timeout after <N>s" with N the plugin's
\* timeout_sec.
C21_PluginDeadline ==
  \A i \in DOMAIN invocations :
    /\ Running(i) => invocations[i].elapsed <= invocations[i].plugin_timeout
    /\ \A r \in {invocations[i].result[k] : k \in DOMAIN invocations[i].result} :
         r.error = "Timeout after" => r.n = invocations[i].plugin_timeout

\* C22: two invocations of the plugin that run at the same time for
\* different events or manual triggers have different container names.
C22_UniqueNames ==
  \A i, j \in DOMAIN invocations :
    /\ Running(i)
    /\ Running(j)
    /\ invocations[i].event_id # invocations[j].event_id
    => invocations[i].name # invocations[j].name


Quiet(i) == active_goals[i].pc = "idle"

\* C23: retries are bounded by retry.attempts.  With every failed attempt
\* the stored fail_count grows by one; an instance is attempted at most
\* attempts + 1 times; and after attempts + 1 failed attempts it is FAILED
\* with last_error set and is out of goal_queue.
C23_BoundedRetry ==
  \A i \in DOMAIN instances :
    LET retry == GoalConfig(instances[i].goal_id).retry
    IN /\ failures[i] <= retry.attempts + 1
       /\ Quiet(i) => instances[i].fail_count = failures[i]
       /\ Quiet(i) /\ failures[i] >= retry.attempts + 1
            => /\ instances[i].state = GoalFailed
               /\ instances[i].last_error # ""
               /\ i \notin goal_queue

\* C24: a loaded goal with a schedule never has two PENDING or IN_PROGRESS
\* instances, and has one whenever no task of the goal is between storing
\* a failure and deciding on the retry.
C24_OneLiveInstance ==
  \A g \in goals :
    GoalConfig(g).schedule # NoSchedule =>
      /\ Cardinality(Live(g)) <= 1
      /\ (\A i \in DOMAIN instances : active_goals[i].pc # "failed")
           => Cardinality(Live(g)) = 1

\* C25: at most max_concurrent_goals instances have a task in
\* _active_goals.
C25_ConcurrencyLimit == Cardinality(Active) <= max_concurrent_goals

\* the limit holds ready instances back
C25_Witness ==
  /\ Cardinality(Active) = max_concurrent_goals
  /\ \E i \in goal_queue \ Active : instances[i].next_run_ts <= clock

C28_EventCreatesInstance ==
  [][\A e \in TriggerEvents :
       EventArrives(e) =>
         \A g \in goals :
           e.topic \in GoalConfig(g).triggers =>
             \E i \in DOMAIN instances' \ DOMAIN instances :
               /\ instances'[i].goal_id = g
               /\ instances'[i].state = GoalPending
               /\ instances'[i].trigger_event = e
               /\ instances'[i].next_run_ts = clock
               /\ i \in goal_queue']_vars

\* C29: a stored SUCCEEDED or FAILED instance has started_at and
\* completed_at set, completed_at >= started_at, and current_step at most
\* the number of steps of its goal.
C29_TerminalTimes ==
  \A i \in DOMAIN instances :
    instances[i].state \in {GoalSucceeded, GoalFailed} =>
      /\ instances[i].started_at # NoTime
      /\ instances[i].completed_at # NoTime
      /\ instances[i].completed_at >= instances[i].started_at
      /\ instances[i].current_step <= Len(Steps(i))

\* C30: the result of every finished step is stored under the step's id.
C30_KeyedByStepId ==
  \A i \in DOMAIN instances :
    \A n \in 0 .. instances[i].current_step - 1 :
      <<IdKey(Steps(i)[n + 1].id), StepResult(Steps(i)[n + 1])>>
        \in instances[i].step_results

\* C34: when a failed attempt is put back as PENDING, the stored
\* current_step, fail_count, last_error and step_results stay as the
\* attempt left them, so the next attempt starts at the step that failed.
C34_RetryResumes ==
  [][\A i \in InstanceIds :
       (TaskRetryOrFail(i) /\ instances'[i].state = GoalPending) =>
         /\ instances'[i].current_step = instances[i].current_step
         /\ instances'[i].fail_count = instances[i].fail_count
         /\ instances'[i].last_error = instances[i].last_error
         /\ instances'[i].step_results = instances[i].step_results]_vars

\* C35: after a first request, pause_goal, found the instance inside its
\* step loop (so IN_PROGRESS), the stored state stays PAUSED and no step
\* of the instance starts, unless the step is resume_goal.
C35_PauseStopsSteps ==
  [][\A i \in InstanceIds :
       (/\ lastCall = [op |-> "pause", changed |-> TRUE, n |-> 1]
        /\ i \in DOMAIN instances
        /\ instances[i].state = GoalPaused
        /\ active_goals[i].pc \in {"steps", "running"}) =>
         /\ ~StepBegins(i)
         /\ instances'[i].state = GoalPaused \/ ResumeGoal(i)]_vars

\* C37: a stored SUCCEEDED instance stays SUCCEEDED, stays out of
\* goal_queue and gets no task.
C37_SucceededAbsorbing ==
  [][\A i \in DOMAIN instances :
       instances[i].state = GoalSucceeded =>
         /\ instances'[i].state = GoalSucceeded
         /\ i \notin goal_queue'
         /\ active_goals'[i].pc = "idle"]_vars

\* C40: no instance id has two tasks that have not returned, also while
\* the instance is due and in goal_queue with its task still active.
C40_OneTaskPerInstance == \A i \in InstanceIds : active_goals[i].tasks <= 1

\* a resumed instance is PENDING, due and in goal_queue while its task is
\* still active and the scheduler has room for another task
C40_Witness ==
  \E i \in Active :
    /\ active_goals[i].pc \in {"steps", "running"}
    /\ i \in goal_queue
    /\ instances[i].state = GoalPending
    /\ instances[i].next_run_ts <= clock
    /\ Cardinality(Active) < max_concurrent_goals

\* C38: when a PENDING instance without a task is due, fewer than
\* max_concurrent_goals tasks are active and each of them has stored
\* IN_PROGRESS, an iteration of the scheduler loop starts a due PENDING
\* instance, whatever get_ready_instances returns.
C38_DueInstanceStarts ==
  (/\ started
   /\ Cardinality(Active) < max_concurrent_goals
   /\ \A a \in Active : active_goals[a].pc # "start"
   /\ \E i \in goal_queue \ Active :
        /\ instances[i].state = GoalPending
        /\ instances[i].next_run_ts <= clock) =>
    \A R \in ReadySets(max_concurrent_goals - Cardinality(Active)) :
      \E j \in LoopStarts(R) : instances[j].state = GoalPending

\* C32: once the scheduler has started with a goal whose schedule is
\* "@every 0s", no next-run time is computed for the schedule and no
\* instance of the goal is stored.
C32_ZeroIntervalRejected ==
  (started /\ goals # {} /\ schedule = EverySeconds(0)) =>
    /\ CalculateNextRun(schedule, clock) = <<>>
    /\ instances = <<>>

\* C31: with both timeouts set, a step is never still running after the
\* smaller of step.timeout_sec and goal.timeout_sec has elapsed, and the
\* run of a step that was aborted ends FAILED with a timeout error.
C31_StepDeadline ==
  (goal_timeout_sec > 0 /\ execution.i <= StepCount
     /\ step_timeouts[execution.i] > 0) =>
    /\ execution.pc = "running" =>
         execution.elapsed <= Min(step_timeouts[execution.i],
                                  goal_timeout_sec)
    /\ execution.last_error.kind = "timed out" =>
         execution.state = GoalFailed

\* C33: a call of record_success, record_failure, reset_plugin or
\* pause_plugin whose write to Redis fails leaves the in-memory
\* PluginHealth as it was before the call.
C33_WriteThenMutate == [][SaveFails => health' = health]_vars

\* C39: when an execution that was in flight records its outcome while
\* the plugin is DISABLED, consecutive_failures stays at or above the
\* threshold, disabled_until stays as set and no further plugin_disabled
\* event is published.
C39_InflightOutcomes ==
  [][(/\ health.state = DISABLED
      /\ \E raises \in BOOLEAN, error \in Errors :
           ExecuteEnds(raises, error)) =>
       /\ health'.state = DISABLED
       /\ health'.consecutive_failures >= FailureThreshold
       /\ health'.disabled_until = health.disabled_until
       /\ health'.disabled_until # NoTime
       /\ systemEvents' = systemEvents]_vars

\* C36: whenever no storage call is in progress, the id is in goal_queue
\* exactly if the stored state is PENDING or IN_PROGRESS, the stored
\* current_step counts every increment_step that has returned, and the
\* stored state is the one set by the latest pause or resume that has
\* returned.
C36_IndexAndRecord ==
  (\A c \in Callers : calls[c].pc = "idle") =>
    /\ indexed <=> Queued(stored)
    /\ stored.current_step = completed.steps
    /\ stored.state = completed.state

====
